---- MODULE Spec2Model ----
(***************************************************************************)
(* A model of the job-lifecycle and dataset-encryption code of byod-cli.   *)
(*                                                                         *)
(* The repository holds three implementations of the job commands:         *)
(*   "cmd"  src/byod_cli/commands/jobs.py   (submit, _wait_for_job, get)   *)
(*   "cli"  src/byod_cli/cli.py             (submit, get)                  *)
(*   "ui"   src/byod_cli/ui/routes/*.py     (submit_job, get_results)      *)
(* Each subsystem below has its own variables and its own specification;   *)
(* a specification leaves the other subsystems' variables untouched.       *)
(***************************************************************************)
EXTENDS Integers, Sequences, FiniteSets, TLC

VARIABLES
    \* ---- the wait loop (polling a submitted job) ----
    w_impl,         \* which loop runs: "wait_for_job", "track", "spinner"
    w_timeout,      \* the caller's --timeout
    w_pc,           \* "loop" | "done" ("idle" when another operation runs)
    w_elapsed,      \* the loop's elapsed counter
    w_last_status,  \* last_status ("None" before the first change)
    w_requests,     \* number of get_job_status calls made
    w_raised,       \* TRUE once a get_job_status call raised APIError
    w_hist,         \* the replies [status, error] of the platform, one per status request
    w_printed,      \* per status request, the number of status lines printed at it
    w_out,          \* the lines printed to the console, in order
    w_spinner,      \* number of spinner.update calls (transient, not a printed line)
    w_exit,         \* process exit status: -1 while running, 0 normal return, 1 sys.exit(1)
    \* ---- submit ----
    s_impl,         \* "cmd", "cli" or "ui"
    s_plugin,       \* the plugin name given by the user
    s_input,        \* the input: [dir, top, nested] (file names at top level / below it)
    s_catalog,      \* what client.list_plugins() gives: "raises" or a sequence of plugins
    s_wait,         \* the --wait flag
    s_pc,           \* "validate", "config", "genkey", "encrypt", "upload_data",
                    \* "upload_key", "register", "wait", "done"
    s_validation,   \* "none", "skipped", "passed", "unknown_plugin", "bad_files"
    s_key,          \* the plaintext data key: "none", "live" or "zeroed"
    s_keyType,      \* Python type of key_response["Plaintext"]: "bytes" or "bytearray"
    s_encrypted,    \* TRUE once the payload has been encrypted
    s_uploads,      \* the presigned POSTs made: sequence of [object, code]
    s_job,          \* the registration: [registered, input_s3_key, wrapped_key_s3_key]
    s_events,       \* ui only: the SSE events yielded, [event, stage, percent]
    s_exit,         \* -1 running; cmd/cli: exit status; ui: 0 stream ended, 400 HTTP error
    \* ---- get: retrieving a job's results ----
    g_impl,         \* "cmd", "cli" or "ui"
    g_status,       \* the status the platform reports for the job
    g_overwrite,    \* --overwrite
    g_dirNonEmpty,  \* the output directory holds files when get starts
    g_plain,        \* what output.enc decrypts to: [gzip, body, tar, members]
    g_filter,       \* the default tarfile extraction filter of the Python in use
    g_pc,           \* position in get
    g_seen,         \* the status get was told, "unchecked" if it never asked
    g_acts,         \* what get has done: "downloaded", "unwrapped", "decrypted", "written",
                    \* and "refused" (output directory not empty), "raised" (extraction
                    \* ended with an exception that is no TarError)
    g_written,      \* the files extraction has written to disk: [outside, path]
    g_extracted,    \* extracted_files
    g_tarError,     \* extraction met a TarError
    g_events,       \* ui only: the SSE events yielded
    g_exit,         \* -1 running; cmd/cli: exit status; ui: 0 stream ended
    g_first,        \* [again, written, extracted]: once get is run a second time,
                    \* what its first run left
    \* ---- dataset encryption: encrypt_path and decrypt_path ----
    e_input,        \* the input of encrypt_path: [is_dir, files], a file is [rel, content]
    e_preserve,     \* preserve_structure
    e_verify,       \* verify of decrypt_path
    e_mgr,          \* the EncryptionManager decrypt_path runs under
    e_run,          \* number of encrypt_path runs started; the run's DEK
    e_pc,           \* position in encrypt_path / decrypt_path
    e_idx,          \* index of the file the loop of encrypt_path is at
    e_open,         \* that file's output is open, not yet written
    e_entries,      \* encrypted_files of the current run
    e_out,          \* the output directory: files [path, complete, dek, aad, pt]
    e_manifest,     \* encryption-manifest.json: [state, wrapped_dek, files]
    e_after,        \* what decrypt_path followed: "encrypted", "crashed" or "tampered"
    e_dec,          \* the directory decrypt_path wrote: files [name, content]
    e_decResult,    \* how decrypt_path ended
    \* ---- the KMS key policy: setup and update-policy ----
    p_policy,       \* the key policy in KMS: its statements (<< >> before setup)
    p_pc,           \* "no_key" before setup, "key" after
    p_manual,       \* the edit made to the policy by hand, "none" if none
    p_updates,      \* number of update-policy runs
    p_before,       \* the policy the last update-policy run read
    p_values,       \* the measurement values the last run was given
    p_report,       \* what the last command reported
    p_put,          \* the last run wrote the policy (put_key_policy succeeded)
    p_prev,         \* [values, report] of the run before the last
    \* ---- the local master keys: KeyManager ----
    k_clock,        \* the wall clock, in seconds
    k_keys,         \* the *.key files: key id -> key bytes
    k_meta,         \* the *.meta.json files: key id -> [rotated_to, rotated_at]
    k_fresh,        \* number of os.urandom draws so far; each draw is new bytes
    k_last,         \* the last call: [op, id, confirm, error, result, ops, keys, meta],
                    \* keys and meta being the files as they were before it
    \* ---- profiles of the configuration: ConfigManager (config.py) ----
    c_profiles,     \* config["profiles"]: the profile names in insertion order
    c_active,       \* config["active_profile"]: a profile name or None
    c_file,         \* what config.yaml holds: [active, profiles]
    c_last,         \* the last call: [op, name, raised]
    \* ---- two concurrent streams of the ui: submit_job and get_results ----
    j_job,          \* run -> [kind, id, fail]: the endpoint, the job and the step at which
                    \* the platform or KMS fails (0: none)
    j_pc,           \* run -> the step the generator is at (0: no event yet)
    j_mem,          \* run -> [key, plain]: the data key and the plaintext it holds
    j_events,       \* run -> the SSE events its stream has yielded
    j_fs,           \* the files below RESULTS_BASE: [dir, name, of], of = whose data
    j_access        \* the file accesses so far: [run, dir, name]

waitVars == <<w_impl, w_timeout, w_pc, w_elapsed, w_last_status, w_requests, w_raised,
              w_hist, w_printed,
              w_out, w_spinner, w_exit>>

subVars == <<s_impl, s_plugin, s_input, s_catalog, s_wait, s_pc, s_validation, s_key,
             s_keyType, s_encrypted, s_uploads, s_job, s_events, s_exit>>

getVars == <<g_impl, g_status, g_overwrite, g_dirNonEmpty, g_plain, g_filter, g_pc,
             g_seen, g_acts, g_written, g_extracted, g_tarError, g_events, g_exit, g_first>>

encVars == <<e_input, e_preserve, e_verify, e_mgr, e_run, e_pc, e_idx, e_open, e_entries,
             e_out, e_manifest, e_after, e_dec, e_decResult>>

policyVars == <<p_policy, p_pc, p_manual, p_updates, p_before, p_values, p_report, p_put,
                p_prev>>

keyVars == <<k_clock, k_keys, k_meta, k_fresh, k_last>>

configVars == <<c_profiles, c_active, c_file, c_last>>

jobVars == <<j_job, j_pc, j_mem, j_events, j_fs, j_access>>

vars == <<waitVars, subVars, getVars, encVars, policyVars, keyVars, configVars, jobVars>>

\* What each operation leaves alone: the state of the other operations.
notWaitVars == <<subVars, getVars, encVars, policyVars, keyVars, configVars, jobVars>>

notSubVars == <<waitVars, getVars, encVars, policyVars, keyVars, configVars, jobVars>>

notGetVars == <<waitVars, subVars, encVars, policyVars, keyVars, configVars, jobVars>>

notEncVars == <<waitVars, subVars, getVars, policyVars, keyVars, configVars, jobVars>>

notPolicyVars == <<waitVars, subVars, getVars, encVars, keyVars, configVars, jobVars>>

notKeyVars == <<waitVars, subVars, getVars, encVars, policyVars, configVars, jobVars>>

notConfigVars == <<waitVars, subVars, getVars, encVars, policyVars, keyVars, jobVars>>

notJobVars == <<waitVars, subVars, getVars, encVars, policyVars, keyVars, configVars>>

(***************************************************************************)
(* The job status vocabulary (spec section 6) and one string outside it.   *)
(***************************************************************************)
NonTerminalStatuses == {"pending", "submitted", "downloading", "processing", "uploading"}

ErrorStatuses == {"failed", "cancelled"}

KnownStatuses == NonTerminalStatuses \cup {"completed"} \cup ErrorStatuses

Statuses == KnownStatuses \cup {"archived"}

\* The value of the "error" key of a status reply; "absent" when the platform
\* supplied none.
ErrorTexts == {"absent", "enclave out of memory"}

(***************************************************************************)
(*                              THE WAIT LOOP                              *)
(***************************************************************************)
WaitImpls == {"wait_for_job", "track", "spinner"}

MaxTimeout == 15

Timeouts == (0 - 5) .. MaxTimeout

ExitError == 1

\* poll_interval: 5 in _wait_for_job and with --track, 10 with plain --wait.
PollInterval(impl) == IF impl = "spinner" THEN 10 ELSE 5

ErrorShown_Generic(err) == "Unknown error"

\* status_info.get("error", "Unknown error")
ErrorShown(err) == IF err = "absent" THEN "Unknown error" ELSE err

\* status_messages.get(current_status, current_status)
StatusMessage(st) == IF st \in KnownStatuses THEN <<"msg", st>> ELSE st

StatusChangeLines_Always(st, last, err, elapsed) ==
    << [kind |-> "status", status |-> st, text |-> st, err |-> ErrorShown(err), at |-> elapsed] >>

\* The tracking loops' "if current_status != last_status" block: the line
\* printed for a status, or nothing when the status did not change.
StatusChangeLines(st, last, err, elapsed) ==
    IF st # last
    THEN IF st = "completed"
         THEN << [kind |-> "status", status |-> st, text |-> StatusMessage(st), err |-> "", at |-> 0 - 1] >>
         ELSE IF st \in ErrorStatuses
              THEN << [kind |-> "status", status |-> st, text |-> StatusMessage(st),
                       err |-> ErrorShown(err), at |-> 0 - 1] >>
              ELSE << [kind |-> "status", status |-> st, text |-> StatusMessage(st),
                       err |-> "", at |-> elapsed] >>
    ELSE << >>

\* The plain --wait loop prints only at a terminal status.
SpinnerLines(st, err) ==
    IF st = "completed"
    THEN << [kind |-> "status", status |-> st, text |-> "Job completed!", err |-> "", at |-> 0 - 1] >>
    ELSE IF st \in ErrorStatuses
         THEN << [kind |-> "status", status |-> st, text |-> <<"Job", st>>,
                  err |-> ErrorShown(err), at |-> 0 - 1] >>
         ELSE << >>

\* The "Get results: byod get <job>" hint printed after a completed status.
HintLine == [kind |-> "hint", status |-> "completed", text |-> "Get results", err |-> "", at |-> 0 - 1]

TimeoutLines_Silent(impl) == << HintLine >>

\* What the loop prints when it falls out of "while elapsed < timeout".
TimeoutLines(impl) ==
    << [kind |-> "timeout_warning", status |-> "", text |-> "Timed out", err |-> "", at |-> 0 - 1] >>
    \o (IF impl = "spinner" THEN << >>
        ELSE << [kind |-> "hint", status |-> "", text |-> "Check status", err |-> "", at |-> 0 - 1] >>)

LoopContinues_Inclusive(elapsed, timeout) == elapsed <= timeout

\* "while elapsed < timeout"
LoopContinues(elapsed, timeout) == elapsed < timeout

WaitInit ==
    /\ w_impl \in WaitImpls
    /\ w_timeout \in Timeouts
    /\ w_pc = "loop"
    /\ w_elapsed = 0
    /\ w_last_status = "None"
    /\ w_requests = 0
    /\ w_raised = FALSE
    /\ w_hist = << >>
    /\ w_printed = << >>
    /\ w_out = << >>
    /\ w_spinner = 0
    /\ w_exit = 0 - 1

\* The wait loop's variables while another subsystem runs.
WaitIdle ==
    /\ w_impl = "wait_for_job"
    /\ w_timeout = 0
    /\ w_pc = "idle"
    /\ w_elapsed = 0
    /\ w_last_status = "None"
    /\ w_requests = 0
    /\ w_raised = FALSE
    /\ w_hist = << >>
    /\ w_printed = << >>
    /\ w_out = << >>
    /\ w_spinner = 0
    /\ w_exit = 0 - 1

\* One iteration of a tracking loop (_wait_for_job, cli.py --track).
TrackPoll(st, err) ==
    /\ UNCHANGED notWaitVars
    /\ w_pc = "loop"
    /\ w_impl \in {"wait_for_job", "track"}
    /\ LoopContinues(w_elapsed, w_timeout)
    /\ w_requests' = w_requests + 1
    /\ w_hist' = Append(w_hist, [status |-> st, error |-> err])
    /\ w_printed' = Append(w_printed, Len(StatusChangeLines(st, w_last_status, err, w_elapsed)))
    /\ w_last_status' = st
    /\ w_spinner' = w_spinner
    /\ IF st = "completed"
       THEN /\ w_out' = w_out \o StatusChangeLines(st, w_last_status, err, w_elapsed) \o << HintLine >>
            /\ w_pc' = "done"
            /\ w_exit' = 0
            /\ w_elapsed' = w_elapsed
       ELSE IF st \in ErrorStatuses
            THEN /\ w_out' = w_out \o StatusChangeLines(st, w_last_status, err, w_elapsed)
                 /\ w_pc' = "done"
                 /\ w_exit' = ExitError
                 /\ w_elapsed' = w_elapsed
            ELSE /\ w_out' = w_out \o StatusChangeLines(st, w_last_status, err, w_elapsed)
                 /\ w_pc' = "loop"
                 /\ w_exit' = w_exit
                 /\ w_elapsed' = w_elapsed + PollInterval(w_impl)
    /\ UNCHANGED <<w_impl, w_timeout, w_raised>>

\* One iteration of cli.py's plain --wait loop.
SpinnerPoll(st, err) ==
    /\ UNCHANGED notWaitVars
    /\ w_pc = "loop"
    /\ w_impl = "spinner"
    /\ LoopContinues(w_elapsed, w_timeout)
    /\ w_requests' = w_requests + 1
    /\ w_hist' = Append(w_hist, [status |-> st, error |-> err])
    /\ w_printed' = Append(w_printed, Len(SpinnerLines(st, err)))
    /\ w_out' = w_out \o SpinnerLines(st, err)
               \o (IF st = "completed" THEN << HintLine >> ELSE << >>)
    /\ IF st = "completed"
       THEN w_pc' = "done" /\ w_exit' = 0 /\ w_elapsed' = w_elapsed /\ w_spinner' = w_spinner
       ELSE IF st \in ErrorStatuses
            THEN w_pc' = "done" /\ w_exit' = ExitError /\ w_elapsed' = w_elapsed
                 /\ w_spinner' = w_spinner
            ELSE w_pc' = "loop" /\ w_exit' = w_exit
                 /\ w_elapsed' = w_elapsed + PollInterval(w_impl)
                 /\ w_spinner' = w_spinner + 1
    /\ UNCHANGED <<w_impl, w_timeout, w_last_status, w_raised>>

\* The loop condition fails: the timeout message, then a normal return.
WaitTimeout ==
    /\ UNCHANGED notWaitVars
    /\ w_pc = "loop"
    /\ ~LoopContinues(w_elapsed, w_timeout)
    /\ w_out' = w_out \o TimeoutLines(w_impl)
    /\ w_pc' = "done"
    /\ w_exit' = 0
    /\ UNCHANGED <<w_impl, w_timeout, w_elapsed, w_last_status, w_requests, w_raised,
                   w_hist, w_printed, w_spinner>>

\* client.get_job_status raises (APIError): submit's handler prints the error
\* and exits with the error status.
WaitRequestRaises ==
    /\ UNCHANGED notWaitVars
    /\ w_pc = "loop"
    /\ LoopContinues(w_elapsed, w_timeout)
    /\ w_requests' = w_requests + 1
    /\ w_raised' = TRUE
    /\ w_out' = Append(w_out, [kind |-> "api_error", status |-> "", text |-> "API error",
                               err |-> "", at |-> 0 - 1])
    /\ w_pc' = "done"
    /\ w_exit' = ExitError
    /\ UNCHANGED <<w_impl, w_timeout, w_elapsed, w_last_status, w_hist, w_printed, w_spinner>>

(***************************************************************************)
(*                    PLUGIN INPUT VALIDATION (validation.py)              *)
(* A file name is the sequence of its dot-separated segments:              *)
(* "sample.fastq.gz" is <<"sample", "fastq", "gz">>.  A format string is   *)
(* the sequence of its segments too: "tar.gz" is <<"tar", "gz">>.          *)
(***************************************************************************)
\* str.lower() on the segments the model uses.
Lower(seg) ==
    IF seg = "TXT" THEN "txt" ELSE IF seg = "CSV" THEN "csv" ELSE IF seg = "GZ" THEN "gz" ELSE seg

LowerName(name) == [i \in 1..Len(name) |-> Lower(name[i])]

MatchesFormats_LastSuffixOnly(name, formats) ==
    LET sfx == Tail(LowerName(name))
    IN  Len(sfx) >= 1 /\ << sfx[Len(sfx)] >> \in {LowerName(f) : f \in formats}

\* _matches_formats: the last suffix, or the last two suffixes joined, is an
\* allowed format (compared in lower case).
MatchesFormats(name, formats) ==
    LET sfx == Tail(LowerName(name))
        allowed == {LowerName(f) : f \in formats}
        n == Len(sfx)
    IN  \/ n >= 1 /\ << sfx[n] >> \in allowed
        \/ n >= 2 /\ << sfx[n - 1], sfx[n] >> \in allowed

\* _matches_pattern: fnmatch of the lower-cased name.  The model's patterns
\* are "*.fastq*" (some suffix begins with "fastq") and "*.csv" (the last
\* suffix is "csv").
MatchesPattern(name, pattern) ==
    LET sfx == Tail(LowerName(name))
    IN  IF pattern = "*.fastq*"
        THEN \E i \in 1..Len(sfx) : sfx[i] \in {"fastq", "fastqsanger"}
        ELSE IF pattern = "*.csv"
             THEN Len(sfx) >= 1 /\ sfx[Len(sfx)] = "csv"
             ELSE FALSE

\* _file_matches_any_constraint
FileMatchesAnyConstraint(name, constraints) ==
    \E i \in 1..Len(constraints) :
        IF constraints[i].formats # {}
        THEN MatchesFormats(name, constraints[i].formats)
        ELSE IF constraints[i].pattern # "none"
             THEN MatchesPattern(name, constraints[i].pattern)
             ELSE TRUE

\* validate_files_for_plugin: the rejected file names, in order (one error
\* message each); empty when every file is accepted.
ValidateFilesForPlugin(filenames, plugin_inputs) ==
    LET IsFile(inp) == inp.type = "file"
        file_constraints == SelectSeq(plugin_inputs, IsFile)
        Rejected(f) == ~FileMatchesAnyConstraint(f, file_constraints)
    IN  IF plugin_inputs = << >> \/ file_constraints = << >>
        THEN << >>
        ELSE SelectSeq(filenames, Rejected)

(***************************************************************************)
(*                                 SUBMIT                                  *)
(***************************************************************************)
Impls == {"cmd", "cli", "ui"}

DemoCount ==
    [name |-> "demo-count",
     inputs |-> << [type |-> "file", formats |-> {<<"txt">>, <<"csv">>}, pattern |-> "none"] >>]

GenomicQc ==
    [name |-> "genomic-qc",
     inputs |-> << [type |-> "file", formats |-> {}, pattern |-> "*.fastq*"],
                   [type |-> "string", formats |-> {}, pattern |-> "none"] >>]

\* A plugin that takes an archive with a compound extension, or a file of
\* any type as its second file input.
BundleTool ==
    [name |-> "bundle-tool",
     inputs |-> << [type |-> "file", formats |-> {<<"tar", "gz">>}, pattern |-> "none"] >>]

AnyFile ==
    [name |-> "any-file",
     inputs |-> << [type |-> "file", formats |-> {<<"csv">>}, pattern |-> "none"],
                   [type |-> "file", formats |-> {}, pattern |-> "none"] >>]

\* What client.list_plugins() can give: an error, no plugin, or a catalogue.
Catalogs ==
    { [raises |-> TRUE, plugins |-> << >>],
      [raises |-> FALSE, plugins |-> << >>],
      [raises |-> FALSE, plugins |-> << DemoCount >>],
      [raises |-> FALSE, plugins |-> << DemoCount, GenomicQc >>],
      [raises |-> FALSE, plugins |-> << DemoCount, GenomicQc, BundleTool, AnyFile >>] }

PluginNames == {"demo-count", "genomic-qc", "bundle-tool", "any-file", "no-such-plugin"}

\* The inputs a user can submit: one file, or a directory with files at its
\* top level and below it.
SubmitInputs ==
    { [dir |-> FALSE, top |-> << <<"data", "txt">> >>, nested |-> << >>],
      [dir |-> FALSE, top |-> << <<"notes", "xyz">> >>, nested |-> << >>],
      [dir |-> FALSE, top |-> << <<"sample", "fastq", "gz">> >>, nested |-> << >>],
      [dir |-> FALSE, top |-> << <<"bundle", "v2", "tar", "GZ">> >>, nested |-> << >>],
      [dir |-> TRUE, top |-> << <<"bundle", "tar", "gz">>, <<"Makefile">> >>, nested |-> << >>],
      [dir |-> TRUE, top |-> << <<"data", "TXT">>, <<"table", "csv">> >>, nested |-> << >>],
      [dir |-> TRUE, top |-> << <<"data", "txt">>, <<"notes", "xyz">> >>, nested |-> << >>],
      [dir |-> TRUE, top |-> << <<"data", "txt">> >>, nested |-> << <<"notes", "xyz">> >>] }

\* HTTP status codes a presigned POST answers with.
UploadCodes == {200, 204, 403, 500}

\* How a call to the platform or to KMS ends.
CallResults == {"ok", "api_error", "auth_error", "network_error"}

ExitAuth == 2

\* The plugins of the catalogue with the given name, in order; the code
\* takes the first, or None when there is none.
PluginMeta(catalog, plugin) ==
    LET Named(p) == p.name = plugin
    IN  SelectSeq(catalog, Named)

\* The file names handed to validate_files_for_plugin: for a directory the
\* CLI lists input_path.iterdir() only, the files at the top level.
ValidatedNames(input) == input.top

\* The files that go into the payload: tar.add(input_path) recurses.
PayloadNames(input) == input.top \o input.nested

UploadAccepted_AnyCode(impl, code) == TRUE

\* "if not response.ok" (cmd, cli: status below 400) and
\* "status_code not in (200, 201, 204)" (ui).
UploadAccepted(impl, code) ==
    IF impl = "ui" THEN code \in {200, 201, 204} ELSE code < 400

\* Exit status of the CLI's except clauses for a failed call.
ExitFor(impl, result) == IF impl = "cmd" /\ result = "auth_error" THEN ExitAuth ELSE ExitError

Progress(stage, percent) == [event |-> "progress", stage |-> stage, percent |-> percent]

ErrorEvent_AsProgress == Progress("checking", 0)

ErrorEvent == [event |-> "error", stage |-> "", percent |-> 0 - 1]

CompleteEvent == [event |-> "complete", stage |-> "", percent |-> 0 - 1]

\* The SSE events the ui yields; the CLI yields none.
Emit(impl, events) == IF impl = "ui" THEN s_events \o events ELSE s_events

NoJob == [registered |-> FALSE, input_s3_key |-> 0, wrapped_key_s3_key |-> 0]

SubInit ==
    /\ s_impl \in Impls
    /\ s_plugin \in PluginNames
    /\ s_input \in SubmitInputs
    /\ s_impl = "ui" => s_input.nested = << >>
    /\ s_catalog \in Catalogs
    /\ s_wait \in BOOLEAN
    /\ s_impl = "ui" => ~s_wait
    /\ s_pc = (IF s_impl = "cli" THEN "config" ELSE "validate")
    /\ s_validation = "none"
    /\ s_key = "none"
    /\ s_keyType = "bytes"
    /\ s_encrypted = FALSE
    /\ s_uploads = << >>
    /\ s_job = NoJob
    /\ s_events = << >>
    /\ s_exit = 0 - 1

SubIdle ==
    /\ s_impl = "cmd"
    /\ s_plugin = "demo-count"
    /\ s_input = [dir |-> FALSE, top |-> << >>, nested |-> << >>]
    /\ s_catalog = [raises |-> FALSE, plugins |-> << >>]
    /\ s_wait = FALSE
    /\ s_pc = "idle"
    /\ s_validation = "none"
    /\ s_key = "none"
    /\ s_keyType = "bytes"
    /\ s_encrypted = FALSE
    /\ s_uploads = << >>
    /\ s_job = NoJob
    /\ s_events = << >>
    /\ s_exit = 0 - 1

\* The step ends submit with an error: the CLI prints and exits, the ui
\* yields an error event and ends the stream.
SubFail(code) ==
    /\ s_pc' = "done"
    /\ s_exit' = (IF s_impl = "ui" THEN 0 ELSE code)

\* Plugin and file-type validation (commands/jobs.py and the ui; cli.py has
\* no such step).  A failing list_plugins() counts as an empty catalogue, and
\* an empty catalogue skips the validation.
SubValidate ==
    /\ UNCHANGED notSubVars
    /\ s_pc = "validate"
    /\ LET available == IF s_catalog.raises THEN << >> ELSE s_catalog.plugins
           meta == PluginMeta(available, s_plugin)
       IN  IF available = << >>
           THEN s_validation' = "skipped" /\ s_pc' = "config" /\ s_exit' = s_exit
           ELSE IF meta = << >>
                THEN /\ s_validation' = "unknown_plugin"
                     /\ s_pc' = "done"
                     /\ s_exit' = (IF s_impl = "ui" THEN 400 ELSE ExitError)
                ELSE IF ValidateFilesForPlugin(ValidatedNames(s_input), meta[1].inputs) # << >>
                     THEN /\ s_validation' = "bad_files"
                          /\ s_pc' = "done"
                          /\ s_exit' = (IF s_impl = "ui" THEN 400 ELSE ExitError)
                     ELSE s_validation' = "passed" /\ s_pc' = "config" /\ s_exit' = s_exit
    /\ UNCHANGED <<s_impl, s_plugin, s_input, s_catalog, s_wait, s_key, s_keyType,
                   s_encrypted, s_uploads, s_job, s_events>>

\* Finding the KMS key to use: the tenant configuration (cmd, cli) or the
\* active profile's settings (ui, after the first progress events).
SubConfig(result, has_key) ==
    /\ UNCHANGED notSubVars
    /\ s_pc = "config"
    /\ s_impl = "ui" => result = "ok"
    /\ LET first == << Progress("receiving", 5) >>
                    \o (IF Len(s_input.top) = 1 THEN << >> ELSE << Progress("packaging", 10) >>)
                    \o << Progress("encrypting", 15) >>
       IN  IF result = "ok" /\ has_key
           THEN /\ s_pc' = "genkey"
                /\ s_exit' = s_exit
                /\ s_events' = Emit(s_impl, first)
           ELSE /\ SubFail(ExitFor(s_impl, result))
                /\ s_events' = Emit(s_impl, first \o << ErrorEvent >>)
    /\ UNCHANGED <<s_impl, s_plugin, s_input, s_catalog, s_wait, s_validation, s_key,
                   s_keyType, s_encrypted, s_uploads, s_job>>

\* kms.generate_data_key: the plaintext key now lives in memory.
SubGenerateKey(ok, type) ==
    /\ UNCHANGED notSubVars
    /\ s_pc = "genkey"
    /\ IF ok
       THEN /\ s_key' = "live"
            /\ s_keyType' = type
            /\ s_pc' = "encrypt"
            /\ s_exit' = s_exit
            /\ s_events' = Emit(s_impl, << Progress("encrypting", 30) >>)
       ELSE /\ SubFail(ExitError)
            /\ s_events' = Emit(s_impl, << ErrorEvent >>)
            /\ UNCHANGED <<s_key, s_keyType>>
    /\ UNCHANGED <<s_impl, s_plugin, s_input, s_catalog, s_wait, s_validation,
                   s_encrypted, s_uploads, s_job>>

\* Reading (or packing) the input and encrypting it with the data key.
SubEncrypt(ok) ==
    /\ UNCHANGED notSubVars
    /\ s_pc = "encrypt"
    /\ IF ok
       THEN /\ s_encrypted' = TRUE
            /\ s_pc' = "upload_data"
            /\ s_exit' = s_exit
            /\ s_events' = Emit(s_impl, << Progress("uploading_data", 45) >>)
       ELSE /\ SubFail(ExitError)
            /\ s_events' = Emit(s_impl, << ErrorEvent >>)
            /\ UNCHANGED s_encrypted
    /\ UNCHANGED <<s_impl, s_plugin, s_input, s_catalog, s_wait, s_validation, s_key,
                   s_keyType, s_uploads, s_job>>

\* One upload: get_upload_url, then the presigned POST and the check of its
\* status code.
SubUpload(object, at, next, url_result, code, progress) ==
    /\ UNCHANGED notSubVars
    /\ s_pc = at
    /\ IF url_result # "ok"
       THEN /\ SubFail(ExitFor(s_impl, url_result))
            /\ s_events' = Emit(s_impl, << ErrorEvent >>)
            /\ UNCHANGED s_uploads
       ELSE /\ s_uploads' = Append(s_uploads, [object |-> object, code |-> code])
            /\ IF UploadAccepted(s_impl, code)
               THEN /\ s_pc' = next
                    /\ s_exit' = s_exit
                    /\ s_events' = Emit(s_impl, << progress >>)
               ELSE /\ SubFail(ExitError)
                    /\ s_events' = Emit(s_impl, << ErrorEvent >>)
    /\ UNCHANGED <<s_impl, s_plugin, s_input, s_catalog, s_wait, s_validation, s_key,
                   s_keyType, s_encrypted, s_job>>

SubUploadData(url_result, code) ==
    SubUpload("payload", "upload_data", "upload_key", url_result, code, Progress("uploading_key", 65))

SubUploadKey(url_result, code) ==
    SubUpload("wrapped_key", "upload_key", "register", url_result, code, Progress("submitting", 85))

\* "if isinstance(plaintext_key, bytearray): zero it" after submit_job in the
\* CLI; the ui has no such step.
KeyAfterSubmit(impl, key, type) ==
    IF impl # "ui" /\ type = "bytearray" THEN "zeroed" ELSE key

\* client.submit_job, and what follows a successful registration.
SubRegister(result) ==
    /\ UNCHANGED notSubVars
    /\ s_pc = "register"
    /\ IF result = "ok"
       THEN /\ s_job' = [registered |-> TRUE, input_s3_key |-> Len(s_uploads) - 1,
                         wrapped_key_s3_key |-> Len(s_uploads)]
            /\ s_key' = KeyAfterSubmit(s_impl, s_key, s_keyType)
            /\ s_events' = Emit(s_impl, << Progress("done", 100), CompleteEvent >>)
            /\ s_pc' = (IF s_wait THEN "wait" ELSE "done")
            /\ s_exit' = (IF s_wait THEN s_exit ELSE 0)
       ELSE /\ SubFail(ExitFor(s_impl, result))
            /\ s_events' = Emit(s_impl, << ErrorEvent >>)
            /\ UNCHANGED <<s_job, s_key>>
    /\ UNCHANGED <<s_impl, s_plugin, s_input, s_catalog, s_wait, s_validation,
                   s_keyType, s_encrypted, s_uploads>>

(***************************************************************************)
(*                        GET: RETRIEVE JOB RESULTS                        *)
(* A member name of an archive is the sequence of its path components:     *)
(* "sub/out.csv" is <<"sub", "out.csv">>, "../evil.txt" is                 *)
(* <<"..", "evil.txt">>, and an absolute name begins with "/".             *)
(***************************************************************************)
\* What the platform can report as the job's status ("" when the reply has
\* no status field).
GetStatuses == Statuses \cup {"COMPLETED", ""}

\* The decrypted payloads.  gzip: the first two bytes are 1f 8b.  body: what
\* follows them, "none" (the payload is no longer than two bytes), "data"
\* (bytes that are, after 1f 8b, a complete gzip stream) or "truncated" (a
\* gzip stream that ends before its end-of-stream marker, as 1f 8b 00).
\* tar: the gzip stream holds a tar archive, with these member names in order.
Plaintexts ==
    { [gzip |-> FALSE, body |-> "data", tar |-> FALSE, members |-> << >>],
      [gzip |-> FALSE, body |-> "none", tar |-> FALSE, members |-> << >>],
      [gzip |-> TRUE, body |-> "none", tar |-> FALSE, members |-> << >>],
      [gzip |-> TRUE, body |-> "truncated", tar |-> FALSE, members |-> << >>],
      [gzip |-> TRUE, body |-> "data", tar |-> FALSE, members |-> << >>],
      [gzip |-> TRUE, body |-> "data", tar |-> TRUE,
       members |-> << <<"report.txt">>, <<"sub", "out.csv">> >>],
      [gzip |-> TRUE, body |-> "data", tar |-> TRUE,
       members |-> << <<"__manifest__.json">>, <<"report.txt">> >>],
      [gzip |-> TRUE, body |-> "data", tar |-> TRUE,
       members |-> << <<"report.txt">>, <<"__manifest__.json">>, <<"sub", "out.csv">> >>],
      [gzip |-> TRUE, body |-> "data", tar |-> TRUE,
       members |-> << <<"__manifest__.json">>, <<"/", "etc", "evil.txt">>, <<"report.txt">> >>],
      [gzip |-> TRUE, body |-> "data", tar |-> TRUE, members |-> << <<"sub", "..", "ok.txt">> >>],
      [gzip |-> TRUE, body |-> "data", tar |-> TRUE,
       members |-> << <<"report.txt">>, <<"..", "evil.txt">> >>],
      [gzip |-> TRUE, body |-> "data", tar |-> TRUE,
       members |-> << <<"sub", "..", "..", "evil.txt">> >>],
      [gzip |-> TRUE, body |-> "data", tar |-> TRUE,
       members |-> << <<"/", "etc", "evil.txt">>, <<"report.txt">> >>] }

\* tarfile's default extraction filter depends on the Python that runs the
\* code: "fully_trusted" writes wherever the member name leads, "data" raises
\* a FilterError (a TarError) for a member that leaves the destination.
TarFilters == {"fully_trusted", "data"}

DownloadCodes == {200, 403, 404}

RECURSIVE Normalize(_, _, _)
\* (Path(output) / name).resolve(): where the member lands, as the path below
\* the destination, or outside of it.
Normalize(path, outside, stack) ==
    IF path = << >>
    THEN [outside |-> outside, path |-> stack]
    ELSE LET c == Head(path)
         IN  IF c = "/"
             THEN Normalize(Tail(path), TRUE, << >>)
             ELSE IF c = ".."
                  THEN IF stack = << >>
                       THEN Normalize(Tail(path), TRUE, << >>)
                       ELSE Normalize(Tail(path), outside, SubSeq(stack, 1, Len(stack) - 1))
                  ELSE Normalize(Tail(path), outside, Append(stack, c))

Resolve(name) == Normalize(name, FALSE, << >>)

\* member_path.is_relative_to(Path(output).resolve())
IsRelativeToOutput(name) == ~Resolve(name).outside

\* Only commands/jobs.py checks the member's resolved path before extracting.
HasPathGuard(impl) == impl = "cmd"

OutputBin == [outside |-> FALSE, path |-> << "output.bin" >>]

RECURSIVE ExtractMembers(_, _, _, _)
\* The loop over tar.getmembers(): the files written and the names appended
\* to extracted_files, and whether a TarError ended the loop.
ExtractMembers(impl, filter, members, acc) ==
    IF members = << >>
    THEN acc
    ELSE LET m == Head(members)
         IN  IF m = << "__manifest__.json" >>
             THEN ExtractMembers(impl, filter, Tail(members), acc)
             ELSE IF HasPathGuard(impl) /\ ~IsRelativeToOutput(m)
                  THEN [acc EXCEPT !.tar_error = TRUE]
                  ELSE IF filter = "data" /\ ~IsRelativeToOutput(m)
                       THEN [acc EXCEPT !.tar_error = TRUE]
                       ELSE ExtractMembers(impl, filter, Tail(members),
                                [acc EXCEPT !.written = @ \cup {Resolve(m)},
                                            !.extracted = Append(@, m)])

\* _extract_results, and the same block of cli.py get and of the ui.  A
\* payload longer than two bytes that begins with 1f 8b is opened as tar.gz:
\* a gzip stream that ends early raises EOFError, which nothing here catches;
\* a complete one that holds no tar archive raises a ReadError (a TarError).
\* Any other payload, and any archive that raised a TarError, is written as
\* output.bin.
ExtractResults(impl, filter, plaintext) ==
    LET empty == [written |-> {}, extracted |-> << >>, tar_error |-> FALSE, raised |-> FALSE]
        raw == [empty EXCEPT !.written = {OutputBin}, !.extracted = << << "output.bin" >> >>]
    IN  IF plaintext.body # "none" /\ plaintext.gzip
        THEN IF plaintext.body = "truncated"
             THEN [empty EXCEPT !.raised = TRUE]
             ELSE LET r == IF plaintext.tar
                           THEN ExtractMembers(impl, filter, plaintext.members, empty)
                           ELSE [empty EXCEPT !.tar_error = TRUE]
                  IN  IF r.tar_error
                      THEN [r EXCEPT !.written = @ \cup {OutputBin},
                                     !.extracted = Append(@, << "output.bin" >>)]
                      ELSE r
        ELSE raw

GetInit ==
    /\ g_impl \in Impls
    /\ g_status \in GetStatuses
    /\ g_overwrite \in BOOLEAN
    /\ g_dirNonEmpty \in BOOLEAN
    /\ g_impl = "ui" => ~g_overwrite
    /\ g_plain \in Plaintexts
    /\ g_filter \in TarFilters
    /\ g_pc = "start"
    /\ g_seen = "unchecked"
    /\ g_acts = {}
    /\ g_written = {}
    /\ g_extracted = << >>
    /\ g_tarError = FALSE
    /\ g_events = << >>
    /\ g_exit = 0 - 1
    /\ g_first = [again |-> FALSE, written |-> {}, extracted |-> << >>]

GetIdle ==
    /\ g_impl = "cmd"
    /\ g_status = "completed"
    /\ g_overwrite = FALSE
    /\ g_dirNonEmpty = FALSE
    /\ g_plain = [gzip |-> FALSE, body |-> "data", tar |-> FALSE, members |-> << >>]
    /\ g_filter = "data"
    /\ g_pc = "idle"
    /\ g_seen = "unchecked"
    /\ g_acts = {}
    /\ g_written = {}
    /\ g_extracted = << >>
    /\ g_tarError = FALSE
    /\ g_events = << >>
    /\ g_exit = 0 - 1
    /\ g_first = [again |-> FALSE, written |-> {}, extracted |-> << >>]

GetEmit(events) == IF g_impl = "ui" THEN g_events \o events ELSE g_events

\* get ends with an error: the CLI prints it and exits, the ui yields an
\* error event and ends the stream.
GetFail(code, events) ==
    /\ g_pc' = "done"
    /\ g_exit' = (IF g_impl = "ui" THEN 0 ELSE code)
    /\ g_events' = GetEmit(events \o << ErrorEvent >>)

GetGoto(pc, events) ==
    /\ g_pc' = pc
    /\ g_exit' = g_exit
    /\ g_events' = GetEmit(events)

RefusesNonEmpty_Never(impl, dirNonEmpty, overwrite) == FALSE

\* "if output.exists() and any(output.iterdir()) and not overwrite": the CLI
\* refuses an output directory that holds anything; the ui has no such check.
RefusesNonEmpty(impl, dirNonEmpty, overwrite) == impl # "ui" /\ dirNonEmpty /\ ~overwrite

getInputs == <<g_impl, g_status, g_overwrite, g_dirNonEmpty, g_plain, g_filter>>

\* The first step.  The ui asks the platform for the job's status and goes on
\* only if it is "completed"; the CLI does not ask, it checks that the output
\* directory is empty (or --overwrite) and requests both download URLs.
GetStart(result) ==
    /\ UNCHANGED notGetVars
    /\ g_pc = "start"
    /\ IF g_impl = "ui"
       THEN IF result # "ok"
            THEN /\ GetFail(ExitError, << Progress("checking", 5) >>)
                 /\ UNCHANGED g_seen
            ELSE /\ g_seen' = g_status
                 /\ IF g_status # "completed"
                    THEN GetFail(ExitError, << Progress("checking", 5) >>)
                    ELSE GetGoto("download_data",
                                 << Progress("checking", 5), Progress("downloading", 15) >>)
       ELSE /\ UNCHANGED g_seen
            /\ IF RefusesNonEmpty(g_impl, g_dirNonEmpty, g_overwrite)
               THEN GetFail(ExitError, << >>)
               ELSE IF result # "ok"
                    THEN GetFail(ExitFor(g_impl, result), << >>)
                    ELSE GetGoto("download_data", << >>)
    /\ g_acts' = (IF RefusesNonEmpty(g_impl, g_dirNonEmpty, g_overwrite)
                  THEN {"refused"} ELSE g_acts)
    /\ UNCHANGED <<getInputs, g_written, g_extracted, g_tarError, g_first>>

\* Downloading output.enc (the ui requests its URL here).
GetDownloadData(url_result, code) ==
    /\ UNCHANGED notGetVars
    /\ g_pc = "download_data"
    /\ g_impl # "ui" => url_result = "ok"
    /\ IF url_result = "ok" /\ code = 200
       THEN /\ g_acts' = g_acts \cup {"downloaded"}
            /\ GetGoto("download_key", << Progress("downloading", 35) >>)
       ELSE /\ GetFail(ExitError, << >>)
            /\ UNCHANGED g_acts
    /\ UNCHANGED <<getInputs, g_seen, g_written, g_extracted, g_tarError, g_first>>

\* Downloading output_key.bin.
GetDownloadKey(url_result, code) ==
    /\ UNCHANGED notGetVars
    /\ g_pc = "download_key"
    /\ g_impl # "ui" => url_result = "ok"
    /\ IF url_result = "ok" /\ code = 200
       THEN GetGoto("config", << Progress("unwrapping", 50) >>)
       ELSE GetFail(ExitError, << >>)
    /\ UNCHANGED <<getInputs, g_seen, g_acts, g_written, g_extracted, g_tarError, g_first>>

\* client.get_tenant_config()
GetConfig(result) ==
    /\ UNCHANGED notGetVars
    /\ g_pc = "config"
    /\ IF result = "ok"
       THEN GetGoto("unwrap", << Progress("unwrapping", 60) >>)
       ELSE GetFail(ExitFor(g_impl, result), << >>)
    /\ UNCHANGED <<getInputs, g_seen, g_acts, g_written, g_extracted, g_tarError, g_first>>

\* kms.decrypt of the wrapped key.
GetUnwrap(ok) ==
    /\ UNCHANGED notGetVars
    /\ g_pc = "unwrap"
    /\ IF ok
       THEN /\ g_acts' = g_acts \cup {"unwrapped"}
            /\ GetGoto("decrypt", << Progress("decrypting", 75) >>)
       ELSE /\ GetFail(ExitError, << >>)
            /\ UNCHANGED g_acts
    /\ UNCHANGED <<getInputs, g_seen, g_written, g_extracted, g_tarError, g_first>>

\* AES-256-GCM decryption of output.enc.
GetDecrypt(ok) ==
    /\ UNCHANGED notGetVars
    /\ g_pc = "decrypt"
    /\ IF ok
       THEN /\ g_acts' = g_acts \cup {"decrypted"}
            /\ GetGoto("extract", << Progress("extracting", 88) >>)
       ELSE /\ GetFail(ExitError, << >>)
            /\ UNCHANGED g_acts
    /\ UNCHANGED <<getInputs, g_seen, g_written, g_extracted, g_tarError, g_first>>

\* Extraction, clean-up and the final report.  An exception that is no
\* TarError leaves _extract_results: the CLI's "except Exception" prints it
\* and exits, the ui's outer "except Exception" yields an error event.
GetExtract ==
    /\ UNCHANGED notGetVars
    /\ g_pc = "extract"
    /\ LET r == ExtractResults(g_impl, g_filter, g_plain)
       IN  /\ g_written' = g_written \cup r.written
           /\ g_extracted' = r.extracted
           /\ g_tarError' = r.tar_error
           /\ g_pc' = "done"
           /\ IF r.raised
              THEN /\ g_acts' = g_acts \cup {"raised"}
                   /\ g_exit' = (IF g_impl = "ui" THEN 0 ELSE ExitError)
                   /\ g_events' = GetEmit(<< ErrorEvent >>)
              ELSE /\ g_acts' = g_acts \cup {"written"}
                   /\ g_exit' = 0
                   /\ g_events' = GetEmit(<< Progress("complete", 100), CompleteEvent >>)
    /\ UNCHANGED <<getInputs, g_seen, g_first>>

\* get is run again for the same job and the same output directory, after a
\* run that ended with its success report.  The directory now holds what
\* that run extracted into it (output.enc and output_key.bin were removed).
GetAgain ==
    /\ UNCHANGED notGetVars
    /\ g_pc = "done"
    /\ "written" \in g_acts
    /\ ~g_first.again
    /\ g_first' = [again |-> TRUE, written |-> g_written, extracted |-> g_extracted]
    /\ g_dirNonEmpty' = (g_dirNonEmpty \/ \E f \in g_written : ~f.outside)
    /\ g_pc' = "start"
    /\ g_seen' = "unchecked"
    /\ g_acts' = {}
    /\ g_extracted' = << >>
    /\ g_tarError' = FALSE
    /\ g_events' = << >>
    /\ g_exit' = 0 - 1
    /\ UNCHANGED <<g_impl, g_status, g_overwrite, g_plain, g_filter, g_written>>

(***************************************************************************)
(*               DATASET ENCRYPTION (encryption.py)                        *)
(* File contents and keys are symbolic.  A ciphertext is the record of     *)
(* what AES-GCM binds together, [dek, aad, pt]: decryption with another    *)
(* key or other associated data fails.  A path is the sequence of its      *)
(* components.                                                             *)
(***************************************************************************)
MaxRuns == 2

\* The inputs of encrypt_path: a single file, or a directory with its files
\* in the order _collect_files returns them (sorted by path).
EncInputs ==
    { [is_dir |-> FALSE, files |-> << [rel |-> << "solo.txt" >>, content |-> "Z"] >>],
      [is_dir |-> TRUE, files |-> << >>],
      [is_dir |-> TRUE, files |-> << [rel |-> << "a.txt" >>, content |-> "A"],
                                     [rel |-> << "empty.bin" >>, content |-> ""] >>],
      [is_dir |-> TRUE, files |-> << [rel |-> << "deep", "er", "n.txt" >>, content |-> "N"],
                                     [rel |-> << "my file.txt" >>, content |-> "S"] >>],
      [is_dir |-> TRUE, files |-> << [rel |-> << "a", "x.txt" >>, content |-> "1"],
                                     [rel |-> << "b", "x.txt" >>, content |-> "2"] >>],
      [is_dir |-> TRUE, files |-> << [rel |-> << "a", "x.txt" >>, content |-> "1"],
                                     [rel |-> << "b", "x.txt" >>, content |-> "1"] >>] }

\* file_path.name
BaseName(rel) == rel[Len(rel)]

\* hashlib.sha256(...).hexdigest(), free of collisions: a non-empty string.
Sha256(content) == [empty |-> FALSE, digest_of |-> content]

\* Checksums a hand-edited manifest can hold: 64 zeros (no file's digest
\* here) and the empty string.
ZeroChecksum == [empty |-> FALSE, digest_of |-> "no such content"]

EmptyChecksum == [empty |-> TRUE, digest_of |-> ""]

\* "if expected_checksum:" is the truth value of a string (or of None).
Truthy(checksum) == ~checksum.empty

AeadAccepts_AnyBody(enc, dek, aad) == enc.complete /\ enc.dek = dek /\ enc.aad = aad

\* AESGCM(dek).decrypt(nonce, ciphertext_with_tag, associated_data) returns
\* the plaintext only for an unchanged ciphertext made with this key and
\* this associated data; anything else raises InvalidTag.
AeadAccepts(enc, dek, aad) ==
    enc.complete /\ enc.dek = dek /\ enc.aad = aad /\ enc.flipped = "none"

\* out_file.with_suffix(out_file.suffix + ".enc")
WithEncSuffix(path) == [path EXCEPT ![Len(path)] = @ \o ".enc"]

\* Where a file's ciphertext goes, below the output directory.
OutFile(input, preserve_structure, rel) ==
    IF preserve_structure /\ input.is_dir
    THEN WithEncSuffix(rel)
    ELSE WithEncSuffix(<< BaseName(rel) >>)

\* An EncryptionManager: a key identifier and the master key bytes the key
\* manager holds for it.  encrypt_path runs under EncManager; decrypt_path
\* under the same, under the same key bytes stored with another identifier,
\* under another key with another identifier, or under another key that
\* took the identifier.
EncManager == [master_key_id |-> "id-alpha", master_key |-> "K1"]

Managers ==
    { EncManager,
      [master_key_id |-> "id-beta", master_key |-> "K1"],
      [master_key_id |-> "id-beta", master_key |-> "K2"],
      [master_key_id |-> "id-alpha", master_key |-> "K2"] }

\* wrap_dek: AES-GCM of the DEK under the master key, the key identifier
\* as associated data.
WrapDek(manager, dek) ==
    [key |-> manager.master_key, aad |-> manager.master_key_id, pt |-> dek]

UnwrapDek_KeyBytesOnly(manager, wrapped_dek) ==
    IF wrapped_dek.key = manager.master_key
    THEN [ok |-> TRUE, dek |-> wrapped_dek.pt]
    ELSE [ok |-> FALSE, dek |-> 0]

\* unwrap_dek: the DEK, or InvalidTag when the master key or the key
\* identifier is not the one the DEK was wrapped with.
UnwrapDek(manager, wrapped_dek) ==
    IF wrapped_dek.key = manager.master_key /\ wrapped_dek.aad = manager.master_key_id
    THEN [ok |-> TRUE, dek |-> wrapped_dek.pt]
    ELSE [ok |-> FALSE, dek |-> 0]

\* A directory is a set of files with distinct paths; writing a file
\* replaces the one at its path.
WriteFile(dir, file) == {f \in dir : f.path # file.path} \cup {file}

NoManifest == [state |-> "absent", wrapped_dek |-> WrapDek(EncManager, 0), files |-> << >>]

EncInit ==
    /\ e_input \in EncInputs
    /\ e_preserve \in BOOLEAN
    /\ e_verify \in BOOLEAN
    /\ e_mgr \in Managers
    /\ e_run = 0
    /\ e_pc = "ready"
    /\ e_idx = 1
    /\ e_open = FALSE
    /\ e_entries = << >>
    /\ e_out = {}
    /\ e_manifest = NoManifest
    /\ e_after = "none"
    /\ e_dec = {}
    /\ e_decResult = "none"

EncIdle ==
    /\ e_input = [is_dir |-> TRUE, files |-> << >>]
    /\ e_preserve = FALSE
    /\ e_verify = TRUE
    /\ e_mgr = EncManager
    /\ e_run = 0
    /\ e_pc = "idle"
    /\ e_idx = 1
    /\ e_open = FALSE
    /\ e_entries = << >>
    /\ e_out = {}
    /\ e_manifest = NoManifest
    /\ e_after = "none"
    /\ e_dec = {}
    /\ e_decResult = "none"

encInputs == <<e_input, e_preserve, e_verify, e_mgr>>

decVars == <<e_after, e_dec, e_decResult>>

\* encrypt_path begins: a new DEK, the list of files (an empty list is an
\* error), the output directory made if it is not there.  The output
\* directory may be one an earlier run wrote to.
EncStart ==
    /\ UNCHANGED notEncVars
    /\ e_pc \in {"ready", "encrypted", "crashed", "rejected"}
    /\ e_run < MaxRuns
    /\ e_run' = e_run + 1
    /\ e_pc' = (IF e_input.files = << >> THEN "rejected" ELSE "files")
    /\ e_idx' = 1
    /\ e_open' = FALSE
    /\ e_entries' = << >>
    /\ UNCHANGED <<encInputs, e_out, e_manifest, decVars>>

\* encrypt_file opens its output for writing: the file exists, empty.
EncOpenFile ==
    /\ UNCHANGED notEncVars
    /\ e_pc = "files"
    /\ ~e_open
    /\ LET f == e_input.files[e_idx]
       IN  e_out' = WriteFile(e_out, [path |-> OutFile(e_input, e_preserve, f.rel),
                                      complete |-> FALSE, flipped |-> "none",
                                      dek |-> 0, aad |-> "", pt |-> ""])
    /\ e_open' = TRUE
    /\ UNCHANGED <<encInputs, e_run, e_pc, e_idx, e_entries, e_manifest, decVars>>

\* encrypt_file writes nonce and ciphertext and returns; encrypt_path notes
\* the file for the manifest and goes to the next one.
EncWriteFile ==
    /\ UNCHANGED notEncVars
    /\ e_pc = "files"
    /\ e_open
    /\ LET f == e_input.files[e_idx]
           out_file == OutFile(e_input, e_preserve, f.rel)
       IN  /\ e_out' = WriteFile(e_out, [path |-> out_file, complete |-> TRUE,
                                         flipped |-> "none", dek |-> e_run,
                                         aad |-> BaseName(f.rel), pt |-> f.content])
           /\ e_entries' = Append(e_entries, [original_name |-> BaseName(f.rel),
                                              encrypted_path |-> out_file,
                                              checksum |-> Sha256(f.content)])
    /\ e_open' = FALSE
    /\ e_idx' = e_idx + 1
    /\ e_pc' = (IF e_idx = Len(e_input.files) THEN "manifest" ELSE "files")
    /\ UNCHANGED <<encInputs, e_run, e_manifest, decVars>>

\* After the loop over the files, open(manifest_path, "w"): the manifest
\* file exists, with nothing in it yet.
EncOpenManifest ==
    /\ UNCHANGED notEncVars
    /\ e_pc = "manifest"
    /\ e_manifest' = [state |-> "partial", wrapped_dek |-> WrapDek(EncManager, e_run), files |-> << >>]
    /\ e_pc' = "manifest_open"
    /\ UNCHANGED <<encInputs, e_run, e_idx, e_open, e_entries, e_out, decVars>>

\* json.dump(manifest, f) and the return of encrypt_path.
EncWriteManifest ==
    /\ UNCHANGED notEncVars
    /\ e_pc = "manifest_open"
    /\ e_manifest' = [state |-> "complete", wrapped_dek |-> WrapDek(EncManager, e_run), files |-> e_entries]
    /\ e_pc' = "encrypted"
    /\ UNCHANGED <<encInputs, e_run, e_idx, e_open, e_entries, e_out, decVars>>

\* The process dies in the middle of encrypt_path.
EncCrash ==
    /\ UNCHANGED notEncVars
    /\ e_pc \in {"files", "manifest", "manifest_open"}
    /\ e_pc' = "crashed"
    /\ UNCHANGED <<encInputs, e_run, e_idx, e_open, e_entries, e_out, e_manifest, decVars>>

RECURSIVE DecryptFiles(_, _, _, _, _)
\* The loop of decrypt_path over the manifest's files, decrypt_file inlined:
\* the files written to the output directory and how the loop ended.
DecryptFiles(files, dek, verify, dir, acc) ==
    IF files = << >>
    THEN acc
    ELSE LET file_info == Head(files)
             found == {f \in dir : f.path = file_info.encrypted_path}
         IN  IF found = {}
             THEN [acc EXCEPT !.result = "file_not_found"]
             ELSE LET enc == CHOOSE f \in found : TRUE
                      expected_checksum == IF verify THEN file_info.checksum
                                                     ELSE EmptyChecksum
                  IN  IF ~AeadAccepts(enc, dek, file_info.original_name)
                      THEN [acc EXCEPT !.result = "invalid_tag"]
                      ELSE IF Truthy(expected_checksum) /\ Sha256(enc.pt) # expected_checksum
                           THEN [acc EXCEPT !.result = "checksum_mismatch"]
                           ELSE DecryptFiles(Tail(files), dek, verify, dir,
                                    [acc EXCEPT !.written =
                                        {w \in @ : w.name # file_info.original_name}
                                        \cup {[name |-> file_info.original_name,
                                               content |-> enc.pt]}])

\* Someone edits the checksum of one entry of the finished manifest.
TamperChecksum(i, checksum) ==
    /\ UNCHANGED notEncVars
    /\ e_pc \in {"encrypted", "tampered"}
    /\ i \in 1..Len(e_manifest.files)
    /\ e_manifest' = [e_manifest EXCEPT !.files[i].checksum = checksum]
    /\ e_pc' = "tampered"
    /\ UNCHANGED <<encInputs, e_run, e_idx, e_open, e_entries, e_out, decVars>>

\* One byte of an encrypted file changes: in the nonce, or after it.
TamperCiphertext(region) ==
    /\ UNCHANGED notEncVars
    /\ e_pc \in {"encrypted", "tampered"}
    /\ \E f \in e_out :
           /\ f.flipped = "none"
           /\ e_out' = WriteFile(e_out, [f EXCEPT !.flipped = region])
    /\ e_pc' = "tampered"
    /\ UNCHANGED <<encInputs, e_run, e_idx, e_open, e_entries, e_manifest, decVars>>

\* decrypt_path of the output directory into a new directory.
DecryptPath ==
    /\ UNCHANGED notEncVars
    /\ e_pc \in {"encrypted", "crashed", "tampered"}
    /\ e_after' = e_pc
    /\ e_pc' = "decrypted"
    /\ LET start == [written |-> {}, result |-> "ok"]
           unwrapped == UnwrapDek(e_mgr, e_manifest.wrapped_dek)
           r == IF e_manifest.state = "absent"
                THEN [start EXCEPT !.result = "manifest_not_found"]
                ELSE IF e_manifest.state = "partial"
                     THEN [start EXCEPT !.result = "manifest_unreadable"]
                     ELSE IF ~unwrapped.ok
                          THEN [start EXCEPT !.result = "invalid_tag"]
                          ELSE DecryptFiles(e_manifest.files, unwrapped.dek,
                                            e_verify, e_out, start)
       IN  /\ e_dec' = r.written
           /\ e_decResult' = r.result
    /\ UNCHANGED <<encInputs, e_run, e_idx, e_open, e_entries, e_out, e_manifest>>

(***************************************************************************)
(*                  KMS KEY POLICY (commands/setup.py)                     *)
(* A policy is the sequence of its statements.  A statement's Condition is *)
(* [op, pcr0, values]: op is the condition operator ("none" when the       *)
(* statement has no Condition), pcr0 tells how the key                     *)
(* kms:RecipientAttestation:PCR0 appears under it ("absent", "str" or      *)
(* "list"), values are the measurement values it holds.                    *)
(***************************************************************************)
MaxUpdates == 2

AttestedSid == "RoleDecryptWithAttestation"

\* The measurement lists the platform can report: enclave_info's
\* pcr0_values, or [pcr0] when that is missing or empty.
MeasurementLists ==
    { << "aa" >>, << "bb" >>, << "aa", "bb" >>, << "bb", "aa" >>, << "aa", "aa" >> }

NoCondition == [op |-> "none", pcr0 |-> "absent", values |-> << >>]

AdminActions ==
    { "kms:Create*", "kms:Describe*", "kms:Enable*", "kms:List*", "kms:Put*", "kms:Update*",
      "kms:Revoke*", "kms:Disable*", "kms:Get*", "kms:Delete*", "kms:TagResource",
      "kms:UntagResource", "kms:ScheduleKeyDeletion", "kms:CancelKeyDeletion", "kms:Encrypt",
      "kms:GenerateDataKey", "kms:GenerateDataKeyWithoutPlaintext" }

BuildKmsKeyPolicy_RootDecryptsForAll(pcr0_values) ==
    << [Sid |-> "CustomerAdmin", Principal |-> "root", Action |-> AdminActions,
        Condition |-> NoCondition],
       [Sid |-> "CustomerDecrypt", Principal |-> "root", Action |-> {"kms:Decrypt"},
        Condition |-> NoCondition],
       [Sid |-> "RoleOperations", Principal |-> "role",
        Action |-> {"kms:GenerateDataKey", "kms:DescribeKey"}, Condition |-> NoCondition],
       [Sid |-> AttestedSid, Principal |-> "role", Action |-> {"kms:Decrypt"},
        Condition |-> [op |-> "StringEqualsIgnoreCase", pcr0 |-> "list",
                       values |-> pcr0_values]] >>

\* _build_kms_key_policy, and the same four statements in the ui's run_setup.
\* The role is one of the customer account, so the account root covers it
\* unless a statement's Condition excludes it.
BuildKmsKeyPolicy(pcr0_values) ==
    << [Sid |-> "CustomerAdmin", Principal |-> "root", Action |-> AdminActions,
        Condition |-> NoCondition],
       [Sid |-> "CustomerDecrypt", Principal |-> "root", Action |-> {"kms:Decrypt"},
        Condition |-> [op |-> "ArnNotEquals", pcr0 |-> "absent", values |-> << >>]],
       [Sid |-> "RoleOperations", Principal |-> "role",
        Action |-> {"kms:GenerateDataKey", "kms:DescribeKey"}, Condition |-> NoCondition],
       [Sid |-> AttestedSid, Principal |-> "role", Action |-> {"kms:Decrypt"},
        Condition |-> [op |-> "StringEqualsIgnoreCase", pcr0 |-> "list",
                       values |-> pcr0_values]] >>

\* What someone can do to the policy by hand, outside of the CLI.
ManualEdits ==
    { "remove_attested", "drop_condition", "other_operator", "single_string", "empty_list",
      "add_statement" }

AuditorStatement ==
    [Sid |-> "Auditor", Principal |-> "root", Action |-> {"kms:DescribeKey"},
     Condition |-> NoCondition]

EditedPolicy(statements, edit) ==
    LET IsNotAttested(st) == st.Sid # AttestedSid
        Shape(cond) ==
            IF edit = "drop_condition" THEN NoCondition
            ELSE IF edit = "other_operator" THEN [cond EXCEPT !.op = "StringEquals"]
            ELSE IF edit = "single_string"
                 THEN [cond EXCEPT !.pcr0 = "str", !.values = << cond.values[1] >>]
            ELSE IF edit = "empty_list" THEN [cond EXCEPT !.values = << >>]
            ELSE cond
    IN  IF edit = "remove_attested" THEN SelectSeq(statements, IsNotAttested)
        ELSE IF edit = "add_statement" THEN << AuditorStatement >> \o statements
        ELSE [i \in 1..Len(statements) |->
                 IF statements[i].Sid = AttestedSid
                 THEN [statements[i] EXCEPT !.Condition = Shape(@)]
                 ELSE statements[i]]

SeqToSet(seq) == {seq[i] : i \in 1..Len(seq)}

\* Index of the first statement with the attested-decrypt Sid, 0 if none.
AttestedIndex(statements) ==
    LET hits == {i \in 1..Len(statements) : statements[i].Sid = AttestedSid}
    IN  IF hits = {} THEN 0 ELSE CHOOSE i \in hits : \A j \in hits : i <= j

PolicyUpdate_Rebuild(statements, pcr0_values) ==
    [updated |-> AttestedIndex(statements) # 0, old |-> << >>,
     statements |-> BuildKmsKeyPolicy(pcr0_values)]

PolicyUpdate_AppendIfMissing(statements, pcr0_values) ==
    [updated |-> TRUE, old |-> << >>,
     statements |-> IF AttestedIndex(statements) # 0 THEN statements
                    ELSE Append(statements, BuildKmsKeyPolicy(pcr0_values)[4])]

\* The loop of update_policy over the statements: whether the attested
\* statement was found, the measurement values it held (<< >> for None), and
\* the policy with the new list put where the old one was.  The list lives
\* under Condition.StringEqualsIgnoreCase; for a statement without that, the
\* code assigns into a dictionary that is not part of the policy.
PolicyUpdate(statements, pcr0_values) ==
    LET k == AttestedIndex(statements)
    IN  IF k = 0
        THEN [updated |-> FALSE, old |-> << >>, statements |-> statements]
        ELSE LET cond == statements[k].Condition
                 attached == cond.op = "StringEqualsIgnoreCase"
             IN  [updated |-> TRUE,
                  old |-> IF attached /\ cond.pcr0 # "absent" THEN cond.values ELSE << >>,
                  statements |->
                      IF attached
                      THEN [statements EXCEPT ![k].Condition.pcr0 = "list",
                                              ![k].Condition.values = pcr0_values]
                      ELSE statements]

\* "if old_pcr0_values and set(old_pcr0_values) == set(pcr0_values)"
AlreadyCurrent(old, pcr0_values) == old # << >> /\ SeqToSet(old) = SeqToSet(pcr0_values)

PolicyInit ==
    /\ p_policy = << >>
    /\ p_pc = "no_key"
    /\ p_manual = "none"
    /\ p_updates = 0
    /\ p_before = << >>
    /\ p_values = << >>
    /\ p_report = "none"
    /\ p_put = FALSE
    /\ p_prev = [values |-> << >>, report |-> "none"]

PolicyIdle ==
    /\ p_policy = << >>
    /\ p_pc = "idle"
    /\ p_manual = "none"
    /\ p_updates = 0
    /\ p_before = << >>
    /\ p_values = << >>
    /\ p_report = "none"
    /\ p_put = FALSE
    /\ p_prev = [values |-> << >>, report |-> "none"]

\* byod setup: kms.create_key with the policy built for the measurement
\* values the platform reports.
PolicySetup(pcr0_values) ==
    /\ UNCHANGED notPolicyVars
    /\ p_pc = "no_key"
    /\ p_policy' = BuildKmsKeyPolicy(pcr0_values)
    /\ p_pc' = "key"
    /\ p_report' = "created"
    /\ UNCHANGED <<p_manual, p_updates, p_before, p_values, p_put, p_prev>>

\* The key policy is changed by hand, before update-policy is first run.
PolicyManualEdit(edit) ==
    /\ UNCHANGED notPolicyVars
    /\ p_pc = "key"
    /\ p_manual = "none"
    /\ p_updates = 0
    /\ p_manual' = edit
    /\ p_policy' = EditedPolicy(p_policy, edit)
    /\ UNCHANGED <<p_pc, p_updates, p_before, p_values, p_report, p_put, p_prev>>

\* byod update-policy, from get_enclave_info to its last message.
UpdatePolicy(pcr0_values, info_ok, read_ok, write_ok) ==
    /\ UNCHANGED notPolicyVars
    /\ p_pc = "key"
    /\ p_updates < MaxUpdates
    /\ p_updates' = p_updates + 1
    /\ p_prev' = [values |-> p_values, report |-> p_report]
    /\ p_values' = pcr0_values
    /\ p_before' = p_policy
    /\ LET r == PolicyUpdate(p_policy, pcr0_values)
       IN  IF ~info_ok
           THEN p_report' = "enclave_info_failed" /\ p_put' = FALSE /\ UNCHANGED p_policy
           ELSE IF ~read_ok
           THEN p_report' = "read_failed" /\ p_put' = FALSE /\ UNCHANGED p_policy
           ELSE IF ~r.updated
           THEN p_report' = "statement_not_found" /\ p_put' = FALSE /\ UNCHANGED p_policy
           ELSE IF AlreadyCurrent(r.old, pcr0_values)
           THEN p_report' = "already_up_to_date" /\ p_put' = FALSE /\ UNCHANGED p_policy
           ELSE IF ~write_ok
           THEN p_report' = "write_failed" /\ p_put' = FALSE /\ UNCHANGED p_policy
           ELSE p_report' = "updated" /\ p_put' = TRUE /\ p_policy' = r.statements
    /\ UNCHANGED <<p_pc, p_manual>>

(***************************************************************************)
(*                  LOCAL MASTER KEYS (key_manager.py)                     *)
(* A key id is "<profile>-<YYYYmmddHHMMSS>": the record of the profile     *)
(* name and the second at which the key was generated.  Key bytes come     *)
(* from os.urandom: every draw gives bytes never seen before, the number   *)
(* of the draw.                                                            *)
(***************************************************************************)
MaxClock == 1

MaxDraws == 4

Profiles == {"p", "q"}

KeySizes == {256, 512}

\* f"{profile_name}-{datetime.now().strftime('%Y%m%d%H%M%S')}"
KeyIdOf(profile, now) == [profile |-> profile, ts |-> now]

KeyIds == {KeyIdOf(profile, now) : profile \in Profiles, now \in 0..MaxClock}

NoKeyId == [profile |-> "", ts |-> 0 - 1]

\* One file less in a directory.
Without(files, id) == [x \in (DOMAIN files) \ {id} |-> files[x]]

\* What generate_master_key writes: the key file (opened "wb") and the
\* metadata file (opened "w") of the key id made from the profile and the
\* current second.
StoreNewKey(keys, meta, profile, now, bytes) ==
    LET key_id == KeyIdOf(profile, now)
    IN  [key_id |-> key_id,
         keys |-> (key_id :> bytes) @@ keys,
         meta |-> (key_id :> [created_at |-> now, rotated_at |-> 0 - 1,
                              rotated_to |-> NoKeyId]) @@ meta]

DeleteAllowed_Always(confirm) == TRUE

\* "if not confirm: raise ValueError"
DeleteAllowed(confirm) == confirm

NoCall ==
    [op |-> "none", id |-> NoKeyId, confirm |-> FALSE, error |-> "", result |-> NoKeyId,
     ops |-> << >>, keys |-> << >>, meta |-> << >>]

KeyInit ==
    /\ k_clock = 0
    /\ k_keys = << >>
    /\ k_meta = << >>
    /\ k_fresh = 0
    /\ k_last = NoCall

KeyIdle ==
    /\ k_clock = 0
    /\ k_keys = << >>
    /\ k_meta = << >>
    /\ k_fresh = 0
    /\ k_last = [NoCall EXCEPT !.op = "idle"]

\* A second passes.
KeyTick ==
    /\ UNCHANGED notKeyVars
    /\ k_last.op # "idle"
    /\ k_clock < MaxClock
    /\ k_clock' = k_clock + 1
    /\ UNCHANGED <<k_keys, k_meta, k_fresh, k_last>>

\* generate_master_key(profile_name, key_size_bits)
GenerateMasterKey(profile, key_size_bits) ==
    /\ UNCHANGED notKeyVars
    /\ k_last.op # "idle"
    /\ k_fresh < MaxDraws
    /\ LET call == [NoCall EXCEPT !.op = "generate", !.keys = k_keys, !.meta = k_meta]
           new == StoreNewKey(k_keys, k_meta, profile, k_clock, k_fresh + 1)
       IN  IF key_size_bits \notin {128, 192, 256}
           THEN /\ k_last' = [call EXCEPT !.error = "ValueError"]
                /\ UNCHANGED <<k_keys, k_meta, k_fresh>>
           ELSE /\ k_keys' = new.keys
                /\ k_meta' = new.meta
                /\ k_fresh' = k_fresh + 1
                /\ k_last' = [call EXCEPT !.result = new.key_id]
    /\ UNCHANGED k_clock

\* rotate_key(old_key_id, profile_name)
RotateKey(old_key_id, profile) ==
    /\ UNCHANGED notKeyVars
    /\ k_last.op # "idle"
    /\ k_fresh < MaxDraws
    /\ LET new == StoreNewKey(k_keys, k_meta, profile, k_clock, k_fresh + 1)
       IN  /\ k_keys' = new.keys
           /\ k_meta' = IF old_key_id \in DOMAIN new.meta
                        THEN [new.meta EXCEPT ![old_key_id].rotated_at = k_clock,
                                              ![old_key_id].rotated_to = new.key_id]
                        ELSE new.meta
           /\ k_fresh' = k_fresh + 1
           /\ k_last' = [NoCall EXCEPT !.op = "rotate", !.id = old_key_id,
                                       !.result = new.key_id, !.keys = k_keys, !.meta = k_meta]
    /\ UNCHANGED k_clock

\* delete_key(key_id, confirm): the file operations it performs, in order.
DeleteKey(key_id, confirm) ==
    /\ UNCHANGED notKeyVars
    /\ k_last.op # "idle"
    /\ k_fresh < MaxDraws
    /\ LET call == [NoCall EXCEPT !.op = "delete", !.id = key_id, !.confirm = confirm,
                                  !.keys = k_keys, !.meta = k_meta]
           has_key == key_id \in DOMAIN k_keys
           has_meta == key_id \in DOMAIN k_meta
       IN  IF ~DeleteAllowed(confirm)
           THEN /\ k_last' = [call EXCEPT !.error = "ValueError"]
                /\ UNCHANGED <<k_keys, k_meta, k_fresh>>
           ELSE /\ k_keys' = Without(k_keys, key_id)
                /\ k_meta' = Without(k_meta, key_id)
                /\ k_fresh' = (IF has_key THEN k_fresh + 1 ELSE k_fresh)
                /\ k_last' =
                       [call EXCEPT !.ops =
                           (IF has_key
                            THEN << [op |-> "write", file |-> "key", bytes |-> k_fresh + 1],
                                    [op |-> "unlink", file |-> "key", bytes |-> 0] >>
                            ELSE << >>)
                           \o (IF has_meta
                               THEN << [op |-> "unlink", file |-> "meta", bytes |-> 0] >>
                               ELSE << >>)]
    /\ UNCHANGED k_clock

(***************************************************************************)
(*                 CONFIGURATION PROFILES (config.py)                      *)
(* config["profiles"] is a dict: its keys keep their insertion order, so   *)
(* the profiles are a sequence of names without repetition.                *)
(***************************************************************************)
\* Profile names; "null" is a name YAML has to quote.
ProfileNames == {"a", "b", "null"}

\* "active_profile": None
NoActive == "<None>"

\* yaml.dump of the active profile: None becomes the null scalar, a name a
\* string scalar (quoted where the plain text would read as another type).
YamlDump(active) ==
    IF active = NoActive THEN [tag |-> "null", text |-> "null"]
                         ELSE [tag |-> "str", text |-> active]

\* yaml.safe_load of that scalar.
YamlLoad(node) == IF node.tag = "null" THEN NoActive ELSE node.text

\* _save_config: the whole configuration is written to config.yaml.
SaveConfig(active, profiles) == [active |-> YamlDump(active), profiles |-> profiles]

ProfileExists(profiles, name) == \E i \in 1..Len(profiles) : profiles[i] = name

\* del self.config["profiles"][name]
Remaining(profiles, name) ==
    LET keep(n) == n # name IN SelectSeq(profiles, keep)

ActiveAfterDelete_Keep(active, name, remaining) == active

\* "if active_profile == name: active_profile = remaining_profiles[0] if
\* remaining_profiles else None"
ActiveAfterDelete(active, name, remaining) ==
    IF active = name
    THEN IF remaining # << >> THEN remaining[1] ELSE NoActive
    ELSE active

\* ConfigManager() in a directory without config.yaml: the default
\* configuration is created and saved.
ConfigInit ==
    /\ c_profiles = << >>
    /\ c_active = NoActive
    /\ c_file = SaveConfig(NoActive, << >>)
    /\ c_last = [op |-> "init", name |-> "", raised |-> FALSE]

ConfigIdle ==
    /\ c_profiles = << >>
    /\ c_active = NoActive
    /\ c_file = SaveConfig(NoActive, << >>)
    /\ c_last = [op |-> "idle", name |-> "", raised |-> FALSE]

\* A call that raises ValueError before it changes anything.
ConfigRaises(op, name) ==
    /\ c_last' = [op |-> op, name |-> name, raised |-> TRUE]
    /\ UNCHANGED <<c_profiles, c_active, c_file>>

ConfigSaves(op, name, active, profiles) ==
    /\ c_profiles' = profiles
    /\ c_active' = active
    /\ c_file' = SaveConfig(active, profiles)
    /\ c_last' = [op |-> op, name |-> name, raised |-> FALSE]

CreateProfile(name) ==
    /\ UNCHANGED notConfigVars
    /\ c_last.op # "idle"
    /\ IF ProfileExists(c_profiles, name)
       THEN ConfigRaises("create_profile", name)
       ELSE ConfigSaves("create_profile", name,
                        IF c_active = NoActive THEN name ELSE c_active,
                        Append(c_profiles, name))

DeleteProfile(name) ==
    /\ UNCHANGED notConfigVars
    /\ c_last.op # "idle"
    /\ IF ~ProfileExists(c_profiles, name)
       THEN ConfigRaises("delete_profile", name)
       ELSE LET remaining == Remaining(c_profiles, name)
            IN  ConfigSaves("delete_profile", name,
                            ActiveAfterDelete(c_active, name, remaining), remaining)

SetActiveProfile(name) ==
    /\ UNCHANGED notConfigVars
    /\ c_last.op # "idle"
    /\ IF ~ProfileExists(c_profiles, name)
       THEN ConfigRaises("set_active_profile", name)
       ELSE ConfigSaves("set_active_profile", name, name, c_profiles)

\* The next invocation of the CLI: a new ConfigManager reads config.yaml.
LoadConfig ==
    /\ UNCHANGED notConfigVars
    /\ c_last.op # "idle"
    /\ c_profiles' = c_file.profiles
    /\ c_active' = YamlLoad(c_file.active)
    /\ c_last' = [op |-> "load", name |-> "", raised |-> FALSE]
    /\ UNCHANGED c_file

(***************************************************************************)
(*        CONCURRENT STREAMS OF THE UI (ui/routes/submit.py, jobs.py)      *)
(* Two requests are served at once; each generator runs its steps in       *)
(* order and the steps of the two interleave at every await.  What the     *)
(* generators share is the file system below RESULTS_BASE; the API client, *)
(* the keys and the plaintext are local to each request.                   *)
(***************************************************************************)
Runs == {1, 2}

JobIds == {"j1", "j2"}

\* submission.job_id: the platform gives every submission a job of its own.
NewJobId(r) == IF r = 1 THEN "new1" ELSE "new2"

GetStages ==
    << Progress("checking", 5), Progress("downloading", 15), Progress("downloading", 35),
       Progress("unwrapping", 50), Progress("unwrapping", 60), Progress("decrypting", 75),
       Progress("extracting", 88), Progress("complete", 100) >>

\* The progress events of a submission of one file.
SubmitStages ==
    << Progress("receiving", 5), Progress("encrypting", 15), Progress("encrypting", 30),
       Progress("uploading_data", 45), Progress("uploading_key", 65),
       Progress("submitting", 85), Progress("done", 100) >>

Stages(kind) == IF kind = "submit" THEN SubmitStages ELSE GetStages

\* The progress events yielded before the first step that can fail.
FirstEvents(kind) == IF kind = "submit" THEN 2 ELSE 1

NSteps(kind) == Len(Stages(kind)) - FirstEvents(kind)

OutputDir_Shared(job_id) == "byod-results"

\* output_dir = RESULTS_BASE / job_id
OutputDir(job_id) == job_id

FileAt(fs, dir, name) == {f \in fs : f.dir = dir /\ f.name = name}

Unlink(fs, dir, name) == fs \ FileAt(fs, dir, name)

WriteTo(fs, dir, name, of) ==
    Unlink(fs, dir, name) \cup {[dir |-> dir, name |-> name, of |-> of]}

NoMem == [key |-> "none", plain |-> "none"]

JobInit ==
    /\ j_job \in [Runs -> [kind : {"submit", "get_results"},
                           id : JobIds \cup {NewJobId(r) : r \in Runs},
                           fail : 0..NSteps("get_results")]]
    /\ \A r \in Runs :
           /\ j_job[r].kind = "submit" <=> j_job[r].id = NewJobId(r)
           /\ j_job[r].fail <= NSteps(j_job[r].kind)
    /\ j_pc = [r \in Runs |-> 0]
    /\ j_mem = [r \in Runs |-> NoMem]
    /\ j_events = [r \in Runs |-> << >>]
    /\ j_fs = {}
    /\ j_access = {}

JobIdle ==
    /\ j_job = [r \in Runs |-> [kind |-> "idle", id |-> "", fail |-> 0]]
    /\ j_pc = [r \in Runs |-> 0]
    /\ j_mem = [r \in Runs |-> NoMem]
    /\ j_events = [r \in Runs |-> << >>]
    /\ j_fs = {}
    /\ j_access = {}

\* The generator of run r is at step k of the endpoint.
JobAt(r, kind, k) == j_job[r].kind = kind /\ j_pc[r] = k

\* The platform and KMS let the step of run r succeed.
EnvOk(r) == j_job[r].fail # j_pc[r]

\* How a step ends: a failure yields the error event and returns, a success
\* yields the next progress event and, after the last step, complete.
StepEnds(r, ok) ==
    LET kind == j_job[r].kind
        next == Stages(kind)[FirstEvents(kind) + j_pc[r]]
    IN  IF ~ok
        THEN /\ j_events' = [j_events EXCEPT ![r] = Append(@, ErrorEvent)]
             /\ j_pc' = [j_pc EXCEPT ![r] = NSteps(kind) + 1]
        ELSE /\ j_events' = [j_events EXCEPT ![r] =
                                IF j_pc[r] = NSteps(kind)
                                THEN @ \o << next, CompleteEvent >>
                                ELSE Append(@, next)]
             /\ j_pc' = [j_pc EXCEPT ![r] = @ + 1]

Accesses(r, dir, names) == j_access \cup {[run |-> r, dir |-> dir, name |-> n] : n \in names}

\* The request arrives and the generator yields its first events.
JobStart(r) ==
    /\ UNCHANGED notJobVars
    /\ j_job[r].kind # "idle"
    /\ j_pc[r] = 0
    /\ j_events' = [j_events EXCEPT ![r] = SubSeq(Stages(j_job[r].kind), 1,
                                                  FirstEvents(j_job[r].kind))]
    /\ j_pc' = [j_pc EXCEPT ![r] = 1]
    /\ UNCHANGED <<j_job, j_mem, j_fs, j_access>>

\* submit_job: generate_data_key, encrypt, the two uploads, submit_job.  The
\* payload and the keys stay in local variables; nothing is written to disk.
JobSubmitStep(r) ==
    /\ UNCHANGED notJobVars
    /\ j_job[r].kind = "submit"
    /\ j_pc[r] \in 1..NSteps("submit")
    /\ StepEnds(r, EnvOk(r))
    /\ j_mem' = [j_mem EXCEPT ![r].key = IF j_pc[r] = 1 /\ EnvOk(r) THEN j_job[r].id ELSE @]
    /\ UNCHANGED <<j_job, j_fs, j_access>>

\* get_results: get_job_status and the check for "completed".
JobCheckStatus(r) ==
    /\ UNCHANGED notJobVars
    /\ JobAt(r, "get_results", 1)
    /\ StepEnds(r, EnvOk(r))
    /\ UNCHANGED <<j_job, j_mem, j_fs, j_access>>

\* Downloading one object of the job into the output directory.
JobDownload(r, k, name) ==
    /\ UNCHANGED notJobVars
    /\ JobAt(r, "get_results", k)
    /\ StepEnds(r, EnvOk(r))
    /\ IF EnvOk(r)
       THEN /\ j_fs' = WriteTo(j_fs, OutputDir(j_job[r].id), name, j_job[r].id)
            /\ j_access' = Accesses(r, OutputDir(j_job[r].id), {name})
       ELSE UNCHANGED <<j_fs, j_access>>
    /\ UNCHANGED <<j_job, j_mem>>

JobDownloadData(r) == JobDownload(r, 2, "output.enc")

JobDownloadKey(r) == JobDownload(r, 3, "output_key.bin")

JobTenantConfig(r) ==
    /\ UNCHANGED notJobVars
    /\ JobAt(r, "get_results", 4)
    /\ StepEnds(r, EnvOk(r))
    /\ UNCHANGED <<j_job, j_mem, j_fs, j_access>>

\* open(output_dir / "output_key.bin") and kms.decrypt: the result key of
\* the job whose wrapped key the file holds.
JobUnwrap(r) ==
    /\ UNCHANGED notJobVars
    /\ JobAt(r, "get_results", 5)
    /\ LET file == FileAt(j_fs, OutputDir(j_job[r].id), "output_key.bin")
           ok == EnvOk(r) /\ file # {}
       IN  /\ StepEnds(r, ok)
           /\ j_mem' = [j_mem EXCEPT ![r].key = IF ok THEN (CHOOSE f \in file : TRUE).of ELSE @]
    /\ j_access' = Accesses(r, OutputDir(j_job[r].id), {"output_key.bin"})
    /\ UNCHANGED <<j_job, j_fs>>

\* open(output_dir / "output.enc") and AESGCM(result_key).decrypt, which
\* raises InvalidTag under another job's key.
JobDecrypt(r) ==
    /\ UNCHANGED notJobVars
    /\ JobAt(r, "get_results", 6)
    /\ LET file == FileAt(j_fs, OutputDir(j_job[r].id), "output.enc")
           ok == /\ EnvOk(r)
                 /\ file # {}
                 /\ \A f \in file : f.of = j_mem[r].key
       IN  /\ StepEnds(r, ok)
           /\ j_mem' = [j_mem EXCEPT ![r].plain = IF ok THEN (CHOOSE f \in file : TRUE).of ELSE @]
    /\ j_access' = Accesses(r, OutputDir(j_job[r].id), {"output.enc"})
    /\ UNCHANGED <<j_job, j_fs>>

\* Extraction into output_dir / "decrypted", then the removal of output.enc
\* and output_key.bin (missing_ok=True).
JobExtract(r) ==
    /\ UNCHANGED notJobVars
    /\ JobAt(r, "get_results", 7)
    /\ StepEnds(r, EnvOk(r))
    /\ LET dir == OutputDir(j_job[r].id)
       IN  IF EnvOk(r)
           THEN /\ j_fs' = Unlink(Unlink(WriteTo(j_fs, dir, "decrypted", j_mem[r].plain),
                                         dir, "output.enc"), dir, "output_key.bin")
                /\ j_access' = Accesses(r, dir, {"decrypted", "output.enc", "output_key.bin"})
           ELSE /\ j_access' = Accesses(r, dir, {"decrypted"})
                /\ UNCHANGED j_fs
    /\ UNCHANGED <<j_job, j_mem>>

(***************************************************************************)
(*                             SPECIFICATIONS                              *)
(***************************************************************************)
NextWait ==
    \/ \E st \in Statuses, err \in ErrorTexts : TrackPoll(st, err)
    \/ \E st \in Statuses, err \in ErrorTexts : SpinnerPoll(st, err)
    \/ WaitRequestRaises
    \/ WaitTimeout

InitWait == WaitInit /\ SubIdle /\ GetIdle /\ EncIdle /\ PolicyIdle /\ KeyIdle /\ ConfigIdle /\ JobIdle

SpecWait == InitWait /\ [][NextWait]_vars

\* The wait loop keeps running: every status request returns or raises
\* within the client's request timeout, and time.sleep returns.
SpecWaitLive == InitWait /\ [][NextWait]_vars /\ WF_vars(NextWait)

NextSubmit ==
    \/ SubValidate
    \/ \E r \in CallResults, k \in BOOLEAN : SubConfig(r, k)
    \/ \E ok \in BOOLEAN, t \in {"bytes", "bytearray"} : SubGenerateKey(ok, t)
    \/ \E ok \in BOOLEAN : SubEncrypt(ok)
    \/ \E r \in CallResults, c \in UploadCodes : SubUploadData(r, c)
    \/ \E r \in CallResults, c \in UploadCodes : SubUploadKey(r, c)
    \/ \E r \in CallResults : SubRegister(r)

InitSubmit == SubInit /\ WaitIdle /\ GetIdle /\ EncIdle /\ PolicyIdle /\ KeyIdle /\ ConfigIdle /\ JobIdle

SpecSubmit == InitSubmit /\ [][NextSubmit]_vars

NextGet ==
    \/ \E r \in CallResults : GetStart(r)
    \/ \E r \in CallResults, c \in DownloadCodes : GetDownloadData(r, c)
    \/ \E r \in CallResults, c \in DownloadCodes : GetDownloadKey(r, c)
    \/ \E r \in CallResults : GetConfig(r)
    \/ \E ok \in BOOLEAN : GetUnwrap(ok)
    \/ \E ok \in BOOLEAN : GetDecrypt(ok)
    \/ GetExtract
    \/ GetAgain

InitGet == GetInit /\ WaitIdle /\ SubIdle /\ EncIdle /\ PolicyIdle /\ KeyIdle /\ ConfigIdle /\ JobIdle

SpecGet == InitGet /\ [][NextGet]_vars

\* One run of a streaming endpoint of the ui: submit_job's or get_results'
\* generator, from the request to the end of its event stream.
StreamInit ==
    \/ SubInit /\ s_impl = "ui" /\ GetIdle
    \/ GetInit /\ g_impl = "ui" /\ SubIdle

InitStream == StreamInit /\ WaitIdle /\ EncIdle /\ PolicyIdle /\ KeyIdle /\ ConfigIdle /\ JobIdle

NextStream == NextSubmit \/ NextGet

SpecStream == InitStream /\ [][NextStream]_vars

NextEnc ==
    \/ EncStart
    \/ EncOpenFile
    \/ EncWriteFile
    \/ EncOpenManifest
    \/ EncWriteManifest
    \/ EncCrash
    \/ \E i \in 1..2, c \in {ZeroChecksum, EmptyChecksum} : TamperChecksum(i, c)
    \/ \E region \in {"nonce", "body"} : TamperCiphertext(region)
    \/ DecryptPath

InitEnc == EncInit /\ WaitIdle /\ SubIdle /\ GetIdle /\ PolicyIdle /\ KeyIdle /\ ConfigIdle /\ JobIdle

SpecEnc == InitEnc /\ [][NextEnc]_vars

NextPolicy ==
    \/ \E v \in MeasurementLists : PolicySetup(v)
    \/ \E edit \in ManualEdits : PolicyManualEdit(edit)
    \/ \E v \in MeasurementLists, i, r, w \in BOOLEAN : UpdatePolicy(v, i, r, w)

InitPolicy == PolicyInit /\ WaitIdle /\ SubIdle /\ GetIdle /\ EncIdle /\ KeyIdle /\ ConfigIdle /\ JobIdle

SpecPolicy == InitPolicy /\ [][NextPolicy]_vars

NextKey ==
    \/ KeyTick
    \/ \E profile \in Profiles, bits \in KeySizes : GenerateMasterKey(profile, bits)
    \/ \E id \in KeyIds, profile \in Profiles : RotateKey(id, profile)
    \/ \E id \in KeyIds, confirm \in BOOLEAN : DeleteKey(id, confirm)

InitKey == KeyInit /\ WaitIdle /\ SubIdle /\ GetIdle /\ EncIdle /\ PolicyIdle /\ ConfigIdle /\ JobIdle

SpecKey == InitKey /\ [][NextKey]_vars

NextConfig ==
    \/ \E name \in ProfileNames : CreateProfile(name)
    \/ \E name \in ProfileNames : DeleteProfile(name)
    \/ \E name \in ProfileNames : SetActiveProfile(name)
    \/ LoadConfig

InitConfig == ConfigInit /\ WaitIdle /\ SubIdle /\ GetIdle /\ EncIdle /\ PolicyIdle /\ KeyIdle /\ JobIdle

SpecConfig == InitConfig /\ [][NextConfig]_vars

NextJob ==
    \/ \E r \in Runs : JobStart(r)
    \/ \E r \in Runs : JobSubmitStep(r)
    \/ \E r \in Runs : JobCheckStatus(r)
    \/ \E r \in Runs : JobDownloadData(r)
    \/ \E r \in Runs : JobDownloadKey(r)
    \/ \E r \in Runs : JobTenantConfig(r)
    \/ \E r \in Runs : JobUnwrap(r)
    \/ \E r \in Runs : JobDecrypt(r)
    \/ \E r \in Runs : JobExtract(r)

InitJob == JobInit /\ WaitIdle /\ SubIdle /\ GetIdle /\ EncIdle /\ PolicyIdle /\ KeyIdle /\ ConfigIdle

SpecJob == InitJob /\ [][NextJob]_vars

(***************************************************************************)
(*                      CLAIMS ABOUT THE WAIT LOOP                         *)
(***************************************************************************)
LastReply == w_hist[Len(w_hist)]

WaitTimedOut ==
    /\ w_pc = "done"
    /\ ~w_raised
    /\ (w_hist = << >> \/ LastReply.status \notin {"completed"} \cup ErrorStatuses)

WaitCompleted == w_pc = "done" /\ ~w_raised /\ w_hist # << >> /\ LastReply.status = "completed"

WaitFailed == w_pc = "done" /\ ~w_raised /\ w_hist # << >> /\ LastReply.status \in ErrorStatuses

HasLine(kind) == \E i \in 1..Len(w_out) : w_out[i].kind = kind

\* C6: when the timeout elapses before a terminal status is seen, the wait
\* ends without an error exit and with the "timed out" warning, which neither
\* the success outcome (exit 0, no warning) nor the failure outcome (error
\* exit, no warning) carries.
C6_TimeoutIsDistinctNonError ==
    /\ WaitTimedOut => (w_exit = 0 /\ HasLine("timeout_warning"))
    /\ WaitCompleted => (w_exit = 0 /\ ~HasLine("timeout_warning"))
    /\ WaitFailed => (w_exit # 0 /\ ~HasLine("timeout_warning"))

C6_Witness == WaitTimedOut /\ Len(w_hist) >= 2

\* The status requests at which the status differs from the one before.
ChangePoints == {i \in 1..Len(w_hist) : i = 1 \/ w_hist[i].status # w_hist[i - 1].status}

C8_FailureEndsWaitWithPlatformError ==
    \A i \in 1..Len(w_hist) :
        w_hist[i].status \in ErrorStatuses =>
            /\ i = Len(w_hist)
            /\ w_pc = "done"
            /\ w_exit = ExitError
            /\ w_out # << >>
            /\ w_out[Len(w_out)].status = w_hist[i].status
            /\ w_hist[i].error # "absent" => w_out[Len(w_out)].err = w_hist[i].error

C8_Witness ==
    /\ Len(w_hist) >= 2
    /\ w_hist[1].status = "processing"
    /\ LastReply.status = "cancelled"
    /\ LastReply.error # "absent"
    /\ w_pc = "done"

\* ceil(T / poll interval) for a positive T, zero otherwise.
CeilPolls(timeout, interval) ==
    IF timeout <= 0 THEN 0 ELSE (timeout + interval - 1) \div interval

\* C25: the wait loop always terminates: for a timeout T and whatever
\* statuses the platform returns, it makes at most ceil(T / poll interval)
\* status requests, none when T is zero or less, and then stops.
C25_WaitLoopTerminates ==
    /\ [](w_requests <= CeilPolls(w_timeout, PollInterval(w_impl)))
    /\ <>(w_pc = "done")

\* The loop of _wait_for_job ran out its timeout of 15 seconds on three
\* non-terminal statuses.
C25_Witness ==
    /\ w_impl = "wait_for_job"
    /\ w_timeout = 15
    /\ w_pc = "done"
    /\ w_requests = 3
    /\ ~w_raised
    /\ \A i \in 1..Len(w_hist) : w_hist[i].status \in NonTerminalStatuses

(***************************************************************************)
(*                          CLAIMS ABOUT SUBMIT                            *)
(***************************************************************************)
\* The plugin is in the catalogue the platform returned.
PluginFound == ~s_catalog.raises /\ PluginMeta(s_catalog.plugins, s_plugin) # << >>

\* Every file that goes into the payload matches the plugin's input contract.
AllFilesValid ==
    /\ PluginFound
    /\ ValidateFilesForPlugin(PayloadNames(s_input),
                              PluginMeta(s_catalog.plugins, s_plugin)[1].inputs) = << >>

\* C3: whenever submit reaches the data-key request, the plugin was found and
\* every input file passed validation against its input contract; and a
\* validation failure ends submit with no key generated and nothing uploaded.
C3_ValidatedBeforeKeyRequest ==
    /\ s_pc = "genkey" => (PluginFound /\ AllFilesValid)
    /\ s_validation \in {"unknown_plugin", "bad_files"} =>
           (s_pc = "done" /\ s_key = "none" /\ ~s_encrypted /\ s_uploads = << >>)

\* The file name satisfies the constraint a declared file input puts on
\* it: its extension, simple or compound, is one of the input's formats
\* whatever the case of either; or it matches the input's glob pattern; or
\* the input puts no constraint.
SatisfiesInput(name, inp) ==
    LET sfx == Tail(LowerName(name))
        EndsWith(f) ==
            /\ Len(f) <= Len(sfx)
            /\ SubSeq(sfx, Len(sfx) - Len(f) + 1, Len(sfx)) = LowerName(f)
    IN  IF inp.formats # {}
        THEN \E f \in inp.formats : EndsWith(f)
        ELSE IF inp.pattern # "none" THEN MatchesPattern(name, inp.pattern) ELSE TRUE

\* C21: plugin input validation accepts a file name that satisfies the
\* constraint of at least one declared file input, and reports an error for
\* a file name only if it satisfies none of them: when every validated name
\* satisfies some file input the validation passes, and when it fails some
\* validated name satisfies no file input.
C21_AcceptedIfAnyInputMatches ==
    s_validation \in {"passed", "bad_files"} =>
        LET inputs == PluginMeta(s_catalog.plugins, s_plugin)[1].inputs
            names == ValidatedNames(s_input)
            SatisfiesSome(n) ==
                \E i \in 1..Len(inputs) :
                    inputs[i].type = "file" /\ SatisfiesInput(n, inputs[i])
        IN  /\ (\A k \in 1..Len(names) : SatisfiesSome(names[k])) => s_validation = "passed"
            /\ s_validation = "bad_files" => \E k \in 1..Len(names) : ~SatisfiesSome(names[k])

\* An archive with a compound extension in upper case passed the validation
\* against the plugin that declares tar.gz.
C21_Witness ==
    /\ s_validation = "passed"
    /\ s_plugin = "bundle-tool"
    /\ s_input.top = << <<"bundle", "v2", "tar", "GZ">> >>

\* An upload succeeded: the presigned POST answered with a 2xx status.
UploadSucceeded(u) == u.code >= 200 /\ u.code < 300

SubmitEndedWithError ==
    /\ s_pc = "done"
    /\ IF s_impl = "ui"
       THEN s_events # << >> /\ s_events[Len(s_events)].event = "error"
       ELSE s_exit # 0

C5_KeyZeroedOnEveryExit ==
    (s_pc \in {"done", "wait"} /\ s_key # "none") => s_key = "zeroed"

(***************************************************************************)
(*                            CLAIMS ABOUT GET                             *)
(***************************************************************************)
GetEndedWithError ==
    /\ g_pc = "done"
    /\ IF g_impl = "ui"
       THEN g_events # << >> /\ g_events[Len(g_events)].event = "error"
       ELSE g_exit # 0

\* C1: get downloads, unwraps, decrypts or writes a result only for a job
\* whose reported status is exactly "completed"; for any other status it does
\* none of these and ends by refusing.
C1_NothingUnlessCompleted ==
    g_status # "completed" =>
        /\ g_acts \subseteq {"refused"}
        /\ g_pc = "done" => GetEndedWithError

\* The archive holds a member whose resolved path is outside the destination.
HasEscapingMember(plaintext) ==
    /\ plaintext.gzip
    /\ plaintext.tar
    /\ \E i \in 1..Len(plaintext.members) : ~IsRelativeToOutput(plaintext.members[i])

\* C2: extraction writes no file outside the destination directory, and a
\* run that extracted an archive with a member leading outside of it ends by
\* reporting the archive as rejected.
C2_NoWriteOutsideAndRejected ==
    /\ \A f \in g_written : ~f.outside
    /\ ("written" \in g_acts /\ HasEscapingMember(g_plain)) => GetEndedWithError

\* The extraction step has run to its end, whichever way.
ExtractionEnded == g_pc = "done" /\ g_acts \cap {"written", "raised"} # {}

\* The payload was extracted as an archive: get reported success, no
\* TarError occurred and the extracted files are members of the archive.
ArchiveOutcome ==
    /\ "written" \in g_acts
    /\ ~g_tarError
    /\ \A i \in 1..Len(g_extracted) :
           \E j \in 1..Len(g_plain.members) : g_extracted[i] = g_plain.members[j]

\* The payload was written as exactly one raw file, output.bin.
RawOutcome ==
    /\ "written" \in g_acts
    /\ g_extracted = << << "output.bin" >> >>
    /\ g_written = {OutputBin}

\* C18: whether the decrypted payload is extracted as an archive or written
\* raw depends only on its first two bytes: a payload that begins with 1f 8b
\* is extracted as an archive, any other payload is written as exactly one
\* raw file.
C18_FirstTwoBytesDecide ==
    ExtractionEnded => IF g_plain.gzip THEN ArchiveOutcome ELSE RawOutcome

\* The part of C18 that the code keeps: a payload that does not begin with
\* 1f 8b is written as exactly one raw file, and a payload that is a tar.gz
\* archive whose members stay inside the destination is extracted as one.
RawOrWellFormedArchive ==
    ExtractionEnded =>
        /\ ~g_plain.gzip => RawOutcome
        /\ (g_plain.tar /\ ~HasEscapingMember(g_plain)) => ArchiveOutcome

ManifestMember == << "__manifest__.json" >>

HoldsManifest(plaintext) ==
    plaintext.tar /\ \E i \in 1..Len(plaintext.members) : plaintext.members[i] = ManifestMember

\* C19: of an archive that holds a member named __manifest__.json, that
\* member is never written to the destination and never listed among the
\* extracted files, and every other member is extracted.
C19_ManifestSkippedOthersExtracted ==
    ("written" \in g_acts /\ HoldsManifest(g_plain)) =>
        /\ Resolve(ManifestMember) \notin g_written
        /\ \A i \in 1..Len(g_extracted) : g_extracted[i] # ManifestMember
        /\ \A j \in 1..Len(g_plain.members) :
               g_plain.members[j] # ManifestMember =>
                   /\ Resolve(g_plain.members[j]) \in g_written
                   /\ \E i \in 1..Len(g_extracted) : g_extracted[i] = g_plain.members[j]

\* The part of C19 that the code keeps: the manifest member is never written
\* as a file nor listed, and when no member leads outside the destination
\* every other member is extracted.
ManifestSkipped ==
    ("written" \in g_acts /\ HoldsManifest(g_plain)) =>
        /\ Resolve(ManifestMember) \notin g_written
        /\ \A i \in 1..Len(g_extracted) : g_extracted[i] # ManifestMember
        /\ ~HasEscapingMember(g_plain) =>
               \A j \in 1..Len(g_plain.members) :
                   g_plain.members[j] # ManifestMember =>
                       /\ Resolve(g_plain.members[j]) \in g_written
                       /\ \E i \in 1..Len(g_extracted) : g_extracted[i] = g_plain.members[j]

\* C20 as claimed: a second run of get for the same completed job and the
\* same destination is not turned away, and when it has extracted, the
\* destination holds the files the first run left and the same files are
\* reported.
C20_Original_RerunSucceeds ==
    (g_first.again /\ g_status = "completed") =>
        /\ "refused" \notin g_acts
        /\ g_written = g_first.written
        /\ "written" \in g_acts => g_extracted = g_first.extracted

\* C20: a second run of get for the same completed job and the same
\* destination leaves the destination with the files the first run left.
\* Through the ui, and through the CLI with --overwrite or when the first
\* run left the directory empty, it is not turned away, and when it has
\* extracted it reports the same files; the CLI without --overwrite refuses
\* a destination that is not empty, with an error.
C20_RerunSameOrRefused ==
    (g_first.again /\ g_status = "completed") =>
        /\ g_written = g_first.written
        /\ "written" \in g_acts => g_extracted = g_first.extracted
        /\ g_pc # "start" =>
               ("refused" \in g_acts <=> (g_impl # "ui" /\ ~g_overwrite /\ g_dirNonEmpty))
        /\ "refused" \in g_acts => (g_pc = "done" /\ g_exit = ExitError)

\* A second run through the CLI with --overwrite that extracted an archive
\* into the directory the first run had filled.
C20_Witness ==
    /\ g_first.again
    /\ g_status = "completed"
    /\ g_impl = "cmd"
    /\ g_overwrite
    /\ g_plain.tar
    /\ "written" \in g_acts
    /\ g_first.written # {}

(***************************************************************************)
(*                     CLAIMS ABOUT DATASET ENCRYPTION                     *)
(***************************************************************************)
\* Every file the manifest lists is in the output directory, completely
\* written.
ManifestFilesComplete ==
    e_manifest.state = "complete" =>
        \A i \in 1..Len(e_manifest.files) :
            \E f \in e_out : f.path = e_manifest.files[i].encrypted_path /\ f.complete

\* The manifest file was opened by the current run of encrypt_path.
ManifestOfThisRun == e_manifest.state # "absent" /\ e_manifest.wrapped_dek.pt = e_run

\* C9: encrypt_path writes the manifest only after every file of the run has
\* been encrypted and written, and a crash at any point of a run leaves no
\* manifest in the output directory that lists a file whose encrypted output
\* is missing or incomplete.
C9_CrashLeavesNoDanglingManifest ==
    /\ ManifestOfThisRun => (e_idx = Len(e_input.files) + 1 /\ ~e_open)
    /\ e_pc = "crashed" => ManifestFilesComplete

\* The same in an output directory that held no manifest when the run began.
ManifestLastInFreshDirectory ==
    /\ ManifestOfThisRun => (e_idx = Len(e_input.files) + 1 /\ ~e_open)
    /\ (e_pc = "crashed" /\ e_run = 1) => ManifestFilesComplete

\* C10: decrypt_path after encrypt_path of N files succeeds and recovers N
\* files, each with the content of its original.
C10_RoundTripRecoversAllFiles ==
    (e_pc = "decrypted" /\ e_after = "encrypted" /\ e_mgr = EncManager) =>
        /\ e_decResult = "ok"
        /\ Cardinality(e_dec) = Len(e_input.files)
        /\ \A i \in 1..Len(e_input.files) :
               [name |-> BaseName(e_input.files[i].rel),
                content |-> e_input.files[i].content] \in e_dec

\* The encrypted file a manifest entry names, as decrypt_path reads it.
EncFileOf(file_info) == CHOOSE f \in e_out : f.path = file_info.encrypted_path

\* Every file the manifest lists is there and passes authentication.
AllAuthentic ==
    /\ e_manifest.state = "complete"
    /\ UnwrapDek(e_mgr, e_manifest.wrapped_dek).ok
    /\ \A i \in 1..Len(e_manifest.files) :
           /\ \E f \in e_out : f.path = e_manifest.files[i].encrypted_path
           /\ AeadAccepts(EncFileOf(e_manifest.files[i]),
                          UnwrapDek(e_mgr, e_manifest.wrapped_dek).dek,
                          e_manifest.files[i].original_name)

\* The manifest records, for some file, a checksum that is not the SHA-256 of
\* the plaintext recovered for it.
ChecksumDiffers ==
    \E i \in 1..Len(e_manifest.files) :
        e_manifest.files[i].checksum # Sha256(EncFileOf(e_manifest.files[i]).pt)

\* C11: when the manifest's checksum for a file differs from the SHA-256 of
\* the plaintext recovered for it, decrypt_path ends with a checksum-mismatch
\* error (not an authentication error) if verify is set, and without error
\* if it is not.
C11_ChecksumMismatchIffVerify ==
    (e_pc = "decrypted" /\ AllAuthentic /\ ChecksumDiffers) =>
        e_decResult = (IF e_verify THEN "checksum_mismatch" ELSE "ok")

\* C12: unwrap_dek fails with an authentication error whenever the DEK was
\* wrapped under another key identifier or another master key, the same
\* master-key bytes under two identifiers included; decrypt_path then
\* recovers nothing.  Under the wrapping manager the DEK comes back.
C12_UnwrapBoundToKeyAndIdentifier ==
    /\ \A m \in Managers, dek \in 0..MaxRuns :
           UnwrapDek(m, WrapDek(EncManager, dek)).ok = (m = EncManager)
    /\ UnwrapDek(EncManager, WrapDek(EncManager, e_run)).dek = e_run
    /\ (e_pc = "decrypted" /\ e_manifest.state = "complete" /\ e_mgr # EncManager) =>
           (e_decResult = "invalid_tag" /\ e_dec = {})

\* decrypt_path ran under the same master-key bytes stored with another
\* identifier, and failed authentication.
C12_Witness ==
    /\ e_pc = "decrypted"
    /\ e_manifest.state = "complete"
    /\ e_mgr.master_key = EncManager.master_key
    /\ e_mgr.master_key_id # EncManager.master_key_id
    /\ e_decResult = "invalid_tag"

\* The manifest lists an encrypted file in which a byte after the nonce
\* was changed.
ListsFlippedFile ==
    \E i \in 1..Len(e_manifest.files) :
        \E f \in e_out : f.path = e_manifest.files[i].encrypted_path /\ f.flipped = "body"

\* C13: decrypting a ciphertext in which a byte after the nonce was changed
\* fails with an authentication error, and no plaintext of a changed
\* ciphertext is ever written: every file decrypt_path wrote is the
\* plaintext of an unchanged ciphertext the manifest lists under its name.
C13_TamperedCiphertextFailsAuthentication ==
    (e_pc = "decrypted" /\ e_manifest.state = "complete") =>
        /\ (ListsFlippedFile /\ e_manifest.files = e_entries) => e_decResult = "invalid_tag"
        /\ ListsFlippedFile => e_decResult # "ok"
        /\ \A w \in e_dec :
               \E i \in 1..Len(e_manifest.files) :
                   \E f \in e_out :
                       /\ f.path = e_manifest.files[i].encrypted_path
                       /\ e_manifest.files[i].original_name = w.name
                       /\ f.flipped = "none"
                       /\ f.pt = w.content

\* decrypt_path, under the manager that encrypted, met a ciphertext with a
\* changed byte after the nonce and failed authentication.
C13_Witness ==
    /\ e_pc = "decrypted"
    /\ e_mgr = EncManager
    /\ ListsFlippedFile
    /\ e_decResult = "invalid_tag"

\* The manifest entries whose encrypted file had a byte changed.
FlippedEntries ==
    {i \in 1..Len(e_manifest.files) :
        \E f \in e_out : f.path = e_manifest.files[i].encrypted_path /\ f.flipped # "none"}

\* decrypt_path ran, under the manager that encrypted, on a dataset of
\* several files of which exactly one encrypted file had a byte changed and
\* whose manifest is as encrypt_path wrote it.
OneFileCorrupted ==
    /\ e_pc = "decrypted"
    /\ e_after = "tampered"
    /\ e_mgr = EncManager
    /\ e_manifest.state = "complete"
    /\ e_manifest.files = e_entries
    /\ Len(e_manifest.files) >= 2
    /\ Cardinality({f \in e_out : f.flipped # "none"}) = 1
    /\ FlippedEntries # {}

\* The file a manifest entry stands for, as decryption has to restore it.
Original(i) ==
    [name |-> BaseName(e_input.files[i].rel), content |-> e_input.files[i].content]

DecryptedAlone(i) ==
    DecryptFiles(<< e_manifest.files[i] >>, UnwrapDek(e_mgr, e_manifest.wrapped_dek).dek,
                 e_verify, e_out, [written |-> {}, result |-> "ok"])

WithoutMeasurements(st) ==
    [st EXCEPT !.Condition.pcr0 = "absent", !.Condition.values = << >>]

\* C14: for any existing policy that contains the attested-decrypt
\* statement, the policy written by update-policy differs from the policy it
\* read only in that statement's measurement values: it has the same
\* statements in the same order, every other statement is equal (as the JSON
\* value the code holds) to what was read, and the attested-decrypt statement
\* is equal to what was read but for the measurement values.
C14_UpdateChangesOnlyMeasurementList ==
    p_put =>
        LET k == AttestedIndex(p_before)
        IN  /\ k # 0
            /\ Len(p_policy) = Len(p_before)
            /\ \A i \in 1..Len(p_before) :
                   IF i = k
                   THEN WithoutMeasurements(p_policy[i]) = WithoutMeasurements(p_before[i])
                   ELSE p_policy[i] = p_before[i]

\* An update that wrote a new measurement list into a policy holding a
\* statement that setup did not create.
C14_Witness ==
    /\ p_put
    /\ p_manual = "add_statement"
    /\ p_policy # p_before
    /\ Len(p_policy) = 5

\* The measurement values that the attested-decrypt statement of a policy
\* holds, whatever the operator they are listed under.
StatementValues(statements) ==
    LET k == AttestedIndex(statements)
    IN  IF k = 0 THEN {} ELSE SeqToSet(statements[k].Condition.values)

\* C15: if the new measurement values equal, as a set, the values already in
\* the attested-decrypt statement, update-policy writes no policy and reports
\* "already up to date"; and an update-policy that follows a successful one
\* with the same set of values writes nothing.
C15_SameSetIsNoOp ==
    /\ ( /\ p_updates > 0
         /\ p_report \notin {"enclave_info_failed", "read_failed"}
         /\ StatementValues(p_before) = SeqToSet(p_values) )
       => (~p_put /\ p_report = "already_up_to_date")
    /\ ( /\ p_updates >= 2
         /\ p_prev.report \in {"updated", "already_up_to_date"}
         /\ SeqToSet(p_prev.values) = SeqToSet(p_values) )
       => ~p_put

\* The part of C15 that the code keeps: when the attested-decrypt statement
\* has its StringEqualsIgnoreCase block, the same set of values in any order
\* is a reported no-op, and so is a repeated update.
SameSetIsNoOpUnderIgnoreCase ==
    LET k == AttestedIndex(p_before)
        intact == k # 0 /\ p_before[k].Condition.op = "StringEqualsIgnoreCase"
    IN  /\ ( /\ p_updates > 0
             /\ intact
             /\ p_report \notin {"enclave_info_failed", "read_failed"}
             /\ StatementValues(p_before) = SeqToSet(p_values) )
           => (~p_put /\ p_report = "already_up_to_date")
        /\ ( /\ p_updates >= 2
             /\ intact
             /\ p_prev.report \in {"updated", "already_up_to_date"}
             /\ SeqToSet(p_prev.values) = SeqToSet(p_values) )
           => ~p_put

\* C16: if the existing policy has no statement with the attested-decrypt
\* Sid, update-policy ends with an error, writes no policy, and the policy
\* in KMS stays as it was, without an attested-decrypt statement.
C16_MissingStatementIsFatal ==
    (p_updates > 0 /\ AttestedIndex(p_before) = 0) =>
        /\ p_report \in {"enclave_info_failed", "read_failed", "statement_not_found"}
        /\ ~p_put
        /\ p_policy = p_before
        /\ AttestedIndex(p_policy) = 0

\* update-policy read a policy without the statement and said so.
C16_Witness ==
    /\ p_manual = "remove_attested"
    /\ p_report = "statement_not_found"
    /\ Len(p_before) = 3

\* The statement allows the processing role to call kms:Decrypt: the role
\* is its principal, or the account root is and no condition excludes the
\* role.
GrantsRoleDecrypt(st) ==
    /\ "kms:Decrypt" \in st.Action
    /\ \/ st.Principal = "role"
       \/ st.Principal = "root" /\ st.Condition.op # "ArnNotEquals"

\* The statement applies only when the attestation's PCR0 is one of a
\* non-empty list of measurement values.
RequiresAttestation(st) ==
    /\ st.Condition.op = "StringEqualsIgnoreCase"
    /\ st.Condition.pcr0 # "absent"
    /\ st.Condition.values # << >>

\* C17: in the policy setup creates and in every policy that later
\* update-policy runs write (nobody having edited the policy by hand), the
\* only statement granting the processing role kms:Decrypt is the
\* attested-decrypt statement, whose condition requires the presented PCR0 to
\* match one of the approved measurement values.
C17_RoleDecryptsOnlyWithAttestation ==
    (p_pc = "key" /\ p_manual = "none") =>
        /\ \A i \in 1..Len(p_policy) :
               GrantsRoleDecrypt(p_policy[i]) =>
                   (p_policy[i].Sid = AttestedSid /\ RequiresAttestation(p_policy[i]))
        /\ \E i \in 1..Len(p_policy) : GrantsRoleDecrypt(p_policy[i])

\* Setup followed by two updates that each wrote a new measurement list.
C17_Witness ==
    /\ p_manual = "none"
    /\ p_updates = 2
    /\ p_put
    /\ p_prev.report = "updated"
    /\ p_policy # p_before

\* C28: whenever update-policy writes a policy, the attested-decrypt
\* statement of the written policy carries exactly the new measurement
\* values as its attestation condition, and the write has changed the set of
\* measurements that may decrypt.
C28_WrittenPolicyCarriesNewValues ==
    p_put =>
        LET k == AttestedIndex(p_policy)
        IN  /\ k # 0
            /\ RequiresAttestation(p_policy[k])
            /\ p_policy[k].Condition.pcr0 = "list"
            /\ p_policy[k].Condition.values = p_values
            /\ ~(RequiresAttestation(p_before[k])
                 /\ SeqToSet(p_before[k].Condition.values) = SeqToSet(p_values))

\* The part of C28 that the code keeps: a write into a statement that has
\* its StringEqualsIgnoreCase block.
WrittenValuesUnderIgnoreCase ==
    (p_put /\ p_before[AttestedIndex(p_before)].Condition.op = "StringEqualsIgnoreCase") =>
        LET k == AttestedIndex(p_policy)
        IN  /\ RequiresAttestation(p_policy[k])
            /\ p_policy[k].Condition.pcr0 = "list"
            /\ p_policy[k].Condition.values = p_values
            /\ SeqToSet(p_before[k].Condition.values) # SeqToSet(p_values)

(***************************************************************************)
(*                  CLAIMS ABOUT THE UI'S EVENT STREAMS                    *)
(***************************************************************************)
\* The stages of the progress events, in the order of the steps.
SubmitSteps ==
    << "receiving", "packaging", "encrypting", "uploading_data", "uploading_key",
       "submitting", "done" >>

GetSteps == << "checking", "downloading", "unwrapping", "decrypting", "extracting", "complete" >>

StepIndex(steps, stage) == CHOOSE i \in 1..Len(steps) : steps[i] = stage

Terminal(e) == e.event \in {"complete", "error"}

\* Progress events in step order with non-decreasing percent, and no event
\* after a terminal one.
OrderedStream(events, steps) ==
    /\ \A i \in 1..Len(events) :
           \/ Terminal(events[i]) /\ i = Len(events)
           \/ /\ events[i].event = "progress"
              /\ \E k \in 1..Len(steps) : steps[k] = events[i].stage
    /\ \A i, j \in 1..Len(events) :
           (i < j /\ ~Terminal(events[j])) =>
               /\ events[i].percent <= events[j].percent
               /\ StepIndex(steps, events[i].stage) <= StepIndex(steps, events[j].stage)

HasComplete(events) == \E i \in 1..Len(events) : events[i].event = "complete"

EndsWithTerminal(events) == events # << >> /\ Terminal(events[Len(events)])

\* The generator of submit_job has ended (a request refused with HTTP 400
\* never opens a stream).
SubmitStreamEnded == s_impl = "ui" /\ s_pc = "done" /\ s_exit = 0

GetStreamEnded == g_impl = "ui" /\ g_pc = "done"

SubmitStepsSucceeded ==
    /\ s_key # "none"
    /\ s_encrypted
    /\ Len(s_uploads) = 2 /\ \A i \in 1..2 : UploadSucceeded(s_uploads[i])
    /\ s_job.registered

GetStepsSucceeded ==
    /\ g_seen = "completed"
    /\ {"downloaded", "unwrapped", "decrypted", "written"} \subseteq g_acts

\* C29: the event stream of one submit or get_results run of the ui is a
\* sequence of progress events in step order with non-decreasing percent; once
\* the run has ended the stream ends with exactly one terminal event (complete
\* or error), nothing follows a terminal event, and complete is emitted only
\* if every step of the run succeeded.
C29_OrderedStreamOneTerminal ==
    /\ OrderedStream(s_events, SubmitSteps)
    /\ OrderedStream(g_events, GetSteps)
    /\ SubmitStreamEnded => EndsWithTerminal(s_events)
    /\ GetStreamEnded => EndsWithTerminal(g_events)
    /\ HasComplete(s_events) => SubmitStepsSucceeded
    /\ HasComplete(g_events) => GetStepsSucceeded
    /\ (SubmitStreamEnded /\ ~SubmitStepsSucceeded) => s_events[Len(s_events)].event = "error"
    /\ (GetStreamEnded /\ ~GetStepsSucceeded) => g_events[Len(g_events)].event = "error"

\* A get_results stream that ended with an error after extraction had
\* started: the archive's gzip stream was cut short.
C29_Witness ==
    /\ GetStreamEnded
    /\ "raised" \in g_acts
    /\ Len(g_events) = 8
    /\ g_events[7] = Progress("extracting", 88)
    /\ g_events[8] = ErrorEvent

(***************************************************************************)
(*                     CLAIMS ABOUT THE LOCAL MASTER KEYS                  *)
(***************************************************************************)
\* The EncryptionManager made for a key id with the given key bytes.
ManagerFor(key_id, bytes) == [master_key_id |-> key_id, master_key |-> bytes]

\* What the claim says of a rotation of a key that existed.
RotationKeepsOldKey ==
    LET old == k_last.id
        new == k_last.result
        dek == 7
    IN  /\ new \in DOMAIN k_keys
        /\ new \notin DOMAIN k_last.keys
        /\ old \in DOMAIN k_meta
        /\ k_meta[old].rotated_to = new
        /\ k_meta[old].rotated_at >= 0
        /\ old \in DOMAIN k_keys
        /\ k_keys[old] = k_last.keys[old]
        /\ UnwrapDek(ManagerFor(old, k_keys[old]),
                     WrapDek(ManagerFor(old, k_last.keys[old]), dek)) = [ok |-> TRUE, dek |-> dek]

\* C22: rotate_key generates a new key, records the new key's id and a
\* rotation timestamp in the old key's metadata, and leaves the old key's
\* bytes unchanged and retrievable, so that a DEK wrapped under the old key
\* before the rotation can still be unwrapped after it.
C22_RotateKeepsOldKey ==
    (k_last.op = "rotate" /\ k_last.id \in DOMAIN k_last.keys) => RotationKeepsOldKey

\* The part of C22 that the code keeps: a rotation whose new key id differs
\* from the old one (another profile name, or a later second).
RotateKeepsOldKeyUnderNewId ==
    (k_last.op = "rotate" /\ k_last.id \in DOMAIN k_last.keys /\ k_last.result # k_last.id) =>
        LET old == k_last.id
        IN  /\ k_last.result \in DOMAIN k_keys
            /\ k_meta[old].rotated_to = k_last.result
            /\ k_meta[old].rotated_at >= 0
            /\ old \in DOMAIN k_keys
            /\ k_keys[old] = k_last.keys[old]

\* C23: a master key is removed only by delete_key with confirm set.
\* Without it the call fails and the key files and their metadata are as
\* they were; with it the key file is overwritten with other bytes before
\* it is unlinked, and the key is no longer retrievable.
C23_DeleteOnlyWithConfirmation ==
    /\ (k_last.op = "delete" /\ ~k_last.confirm) =>
           (k_last.error = "ValueError" /\ k_keys = k_last.keys /\ k_meta = k_last.meta)
    /\ (k_last.op = "delete" /\ k_last.confirm /\ k_last.id \in DOMAIN k_last.keys) =>
           /\ k_last.error = ""
           /\ k_last.ops[1].op = "write" /\ k_last.ops[1].file = "key"
           /\ k_last.ops[1].bytes # k_last.keys[k_last.id]
           /\ k_last.ops[2].op = "unlink" /\ k_last.ops[2].file = "key"
           /\ k_last.id \notin DOMAIN k_keys
           /\ k_last.id \notin DOMAIN k_meta
    /\ \A id \in DOMAIN k_last.keys :
           id \notin DOMAIN k_keys =>
               (k_last.op = "delete" /\ k_last.confirm /\ k_last.id = id)

\* A confirmed delete_key of a key that existed next to another key.
C23_Witness ==
    /\ k_last.op = "delete"
    /\ k_last.confirm
    /\ Len(k_last.ops) = 3
    /\ k_last.id \in DOMAIN k_last.keys
    /\ DOMAIN k_keys # {}

\* C27: each master-key file is written once: no generate_master_key and no
\* rotate_key overwrites the key file of a key id stored earlier, so that
\* get_master_key returns the same bytes for that id until it is deleted.
C27_KeyFileWrittenOnce ==
    k_last.op \in {"generate", "rotate"} =>
        \A id \in DOMAIN k_last.keys :
            id \in DOMAIN k_keys /\ k_keys[id] = k_last.keys[id]

\* The part of C27 that the code keeps: the keys of every id other than the
\* one the call made are as they were.
OtherKeyFilesUntouched ==
    k_last.op \in {"generate", "rotate"} =>
        \A id \in DOMAIN k_last.keys :
            id # k_last.result => (id \in DOMAIN k_keys /\ k_keys[id] = k_last.keys[id])

(***************************************************************************)
(*               CLAIMS ABOUT THE CONFIGURATION PROFILES                   *)
(***************************************************************************)
ActiveMatchesProfiles(active, profiles) ==
    /\ active = NoActive <=> profiles = << >>
    /\ active # NoActive => ProfileExists(profiles, active)

\* C30: starting from an empty configuration, after any sequence of
\* create_profile, delete_profile and set_active_profile calls, failing calls
\* included, the stored active profile is None exactly when no profile exists
\* and otherwise names an existing profile, in memory and in config.yaml.
C30_ActiveProfileExists ==
    /\ ActiveMatchesProfiles(c_active, c_profiles)
    /\ ActiveMatchesProfiles(YamlLoad(c_file.active), c_file.profiles)

\* A profile was deleted, two others remain and the older of them, "null",
\* is the active one.
C30_Witness ==
    /\ c_last.op = "delete_profile" /\ ~c_last.raised
    /\ Len(c_profiles) >= 2
    /\ c_active = c_profiles[1]
    /\ \A i \in 1..Len(c_profiles) : c_profiles[i] # c_last.name
    /\ c_active = "null"

(***************************************************************************)
(*                 CLAIMS ABOUT CONCURRENT STREAMS                         *)
(***************************************************************************)
\* The events of the run when nothing else is running: every step up to the
\* one the platform or KMS fails succeeds.
AloneEvents(job) ==
    IF job.fail = 0
    THEN Stages(job.kind) \o << CompleteEvent >>
    ELSE SubSeq(Stages(job.kind), 1, FirstEvents(job.kind) + job.fail - 1) \o << ErrorEvent >>

JobEnded(r) == j_pc[r] = NSteps(j_job[r].kind) + 1

\* What the run leaves on disk when it runs alone.
AloneFiles(job) ==
    IF job.kind = "get_results" /\ job.fail = 0
    THEN {[dir |-> OutputDir(job.id), name |-> "decrypted", of |-> job.id]}
    ELSE {}

SameOutcomeAsAlone(r) ==
    /\ j_events[r] = SubSeq(AloneEvents(j_job[r]), 1, Len(j_events[r]))
    /\ JobEnded(r) =>
           /\ j_events[r] = AloneEvents(j_job[r])
           /\ AloneFiles(j_job[r]) \subseteq j_fs

OnlyOwnMaterial(r, q) ==
    /\ j_mem[r].key \in {"none", j_job[r].id}
    /\ j_mem[r].plain \in {"none", j_job[r].id}
    /\ \A a, b \in j_access : (a.run = r /\ b.run = q) => a.dir # b.dir
    /\ \A f \in j_fs : f.dir = OutputDir(j_job[r].id) => f.of = j_job[r].id

SameJobStreamsInterfere ==
    \E r, q \in Runs :
        /\ r # q /\ j_job[r].id = j_job[q].id
        /\ JobEnded(r) /\ j_job[r].fail = 0
        /\ j_events[r][Len(j_events[r])] = ErrorEvent

====
